---- MODULE Spec2Model ----
(***************************************************************************)
(* A model of the gradient-descent optimizer (optimizers.py), the function *)
(* registry it uses (functions.py) and the cross-validation driver         *)
(* (model_selection.py, utility.py) of NNs-from-scratch.                   *)
(*                                                                         *)
(* Python floats are modelled as exact rationals <<numerator, denominator>>*)
(* in lowest terms with a positive denominator.                            *)
(***************************************************************************)
EXTENDS Integers, Sequences, FiniteSets, TLC

(***************************************************************************)
(* Bounds of the model.                                                    *)
(***************************************************************************)
NumLayers == 2
NumOut == 2
MaxTrain == 3
MaxVal == 1
MaxBatch == 3
MaxEpochs == 2
\* at most this many pattern presentations (patterns * epochs) in one optimize call
MaxPresented == 4
MaxLimitStep == 3
MaxRows == 5
MaxFolds == 3
\* the number of optimize calls made on one optimizer object
MaxCalls == 2

\* the models of an ensemble and the patterns each one is fitted on
MaxEnsemble == 2

EnsTrain == 2

MaxCvEpochs == 2

(***************************************************************************)
(* Float arithmetic, as exact rationals.                                   *)
(***************************************************************************)
Abs(x) == IF x < 0 THEN -x ELSE x

RECURSIVE GCD(_, _)
GCD(a, b) == IF b = 0 THEN a ELSE GCD(b, a % b)

Rat(n, d) ==
    LET g == GCD(Abs(n), Abs(d))
        s == IF d < 0 THEN -1 ELSE 1
    IN  <<(s * n) \div g, (s * d) \div g>>

R(n) == <<n, 1>>

RAdd(a, b) ==
    LET g == GCD(a[2], b[2])
        l == (a[2] \div g) * b[2]
    IN  Rat(a[1] * (l \div a[2]) + b[1] * (l \div b[2]), l)

RNeg(a) == <<-a[1], a[2]>>

RSub(a, b) == RAdd(a, RNeg(b))

RMul(a, b) ==
    LET g1 == GCD(Abs(a[1]), b[2])
        g2 == GCD(Abs(b[1]), a[2])
    IN  Rat((a[1] \div g1) * (b[1] \div g2), (a[2] \div g2) * (b[2] \div g1))

RDiv(a, b) == RMul(a, IF b[1] < 0 THEN <<-b[2], -b[1]>> ELSE <<b[2], b[1]>>)

RLt(a, b) == RSub(a, b)[1] < 0

RLe(a, b) == RSub(a, b)[1] <= 0

RAbs(a) == <<Abs(a[1]), a[2]>>

RECURSIVE RSum(_)
RSum(s) == IF s = <<>> THEN R(0) ELSE RAdd(Head(s), RSum(Tail(s)))

(***************************************************************************)
(* functions.py: losses, metrics and learning-rate schedules.              *)
(***************************************************************************)
Units == 1..NumOut

\* squared_loss: element-wise 0.5 * (target - predicted)^2
squared_loss(predicted, target) ==
    [u \in DOMAIN predicted |->
        RMul(Rat(1, 2), RMul(RSub(target[u], predicted[u]), RSub(target[u], predicted[u])))]

\* the difference taken the other way round
squared_loss_deriv_reversed(predicted, target) ==
    [u \in DOMAIN predicted |-> RSub(target[u], predicted[u])]

\* squared_loss_deriv: element-wise predicted - target
squared_loss_deriv(predicted, target) ==
    [u \in DOMAIN predicted |-> RSub(predicted[u], target[u])]

\* binary_class_accuracy: a one-element list, from the first output unit alone
binary_class_accuracy(predicted, target) ==
    IF RLt(RAbs(RSub(predicted[1], target[1])), Rat(3, 10)) THEN <<R(1)>> ELSE <<R(0)>>

\* lasso_l1_deriv and ridge_l2_deriv, for one weight
lasso_l1_deriv(w, lambd) ==
    IF w[1] < 0 THEN RNeg(lambd) ELSE IF w[1] > 0 THEN lambd ELSE R(0)

ridge_l2_deriv(w, lambd) == RMul(RMul(R(2), lambd), w)

regs == {"l2", "l1"}

RegDeriv(reg_type, w, lambd) ==
    IF reg_type = "l1" THEN lasso_l1_deriv(w, lambd) ELSE ridge_l2_deriv(w, lambd)

\* the registries: the names under which a function can be looked up
losses == {"squared"}

metrics == {"bin_class_acc", "euclidean"}

lr_decays == {"linear", "exponential"}

\* a linear decay that goes on interpolating from the current lr
linear_lr_decay_from_curr(curr_lr, base_lr, final_lr, curr_step, limit_step) ==
    IF curr_step < limit_step
    THEN LET decay_rate == Rat(curr_step, limit_step)
         IN  RAdd(RMul(RSub(R(1), decay_rate), curr_lr), RMul(decay_rate, final_lr))
    ELSE final_lr

\* linear_lr_decay(curr_lr, base_lr, final_lr, curr_step, limit_step)
linear_lr_decay(curr_lr, base_lr, final_lr, curr_step, limit_step) ==
    IF curr_step < limit_step /\ RLt(final_lr, curr_lr)
    THEN LET decay_rate == Rat(curr_step, limit_step)
         IN  RAdd(RMul(RSub(R(1), decay_rate), base_lr), RMul(decay_rate, final_lr))
    ELSE final_lr

\* the parameters of each schedule that have no default value
RequiredArgs(name) ==
    IF name = "linear"
    THEN {"curr_lr", "base_lr", "final_lr", "curr_step", "limit_step"}
    ELSE {"base_lr", "decay_rate", "curr_step", "decay_steps"}

\* the keyword arguments optimize passes to the configured schedule
DecayCallKwargs == {"curr_lr", "base_lr", "final_lr", "curr_step", "limit_step"}

\* Python raises TypeError when a call leaves a required parameter unbound
DecayCallRaises(name) == RequiredArgs(name) \ DecayCallKwargs # {}

(***************************************************************************)
(* Inputs: the constructor arguments and the data sets that are tried.     *)
(***************************************************************************)
Layers == 1..NumLayers

LrInputs == {Rat(-1, 2), R(0), Rat(1, 2), R(1), Rat(3, 2)}

LossInputs == {"squared", "hinge"}

MetrInputs == {"bin_class_acc", "accuracy"}

DecayInputs == {"None", "linear", "exponential"}

MomentumInputs == {R(0), Rat(1, 2)}

\* reg_type and lambd of a configuration (list_of_combos: 'l2' and 0 when absent)
HyperInputs ==
    { [reg_type |-> "l2", lambd |-> R(0)],
      [reg_type |-> "l2", lambd |-> Rat(1, 10)],
      [reg_type |-> "l1", lambd |-> Rat(1, 10)] }

\* row i of a data set: an input pattern and its target vector
PatternOf(i) == i

TargetOf(i) == [u \in Units |-> R((i + u) % 2)]

Perms(n) == {p \in [1..n -> 1..n] : \A i, j \in 1..n : p[i] = p[j] => i = j}

Zeros == [u \in Units |-> R(0)]

(***************************************************************************)
(* The Network, as far as the optimizer uses it.  A forward/backward pass  *)
(* of one pattern is one of a few responses: the output vector, the cached *)
(* input of the layers and the factor that carries the output delta back   *)
(* to the hidden layers.                                                   *)
(***************************************************************************)
NetResponses ==
    { [out |-> [u \in Units |-> IF u = 1 THEN R(0) ELSE R(1)], inp |-> 1, back |-> 2],
      [out |-> [u \in Units |-> IF u = 1 THEN Rat(4, 5) ELSE R(0)], inp |-> 2, back |-> -1] }

\* Network.forward: the output of the last layer
forward(resp) == resp.out

\* Network.get_empty_struct: zero gradients in the shape of the layers
get_empty_struct == [l \in Layers |-> [weights |-> R(0), biases |-> R(0)]]

\* the gradient of one pattern: delta = -dErr_dOut at the output layer,
\* carried back to the layers before it; weights: delta * input, biases: delta
PatternGrad(dErr_dOut, resp) ==
    [l \in Layers |->
        LET delta == IF l = NumLayers THEN RNeg(dErr_dOut[1])
                     ELSE RMul(R(resp.back), RNeg(dErr_dOut[1]))
        IN  [weights |-> RMul(delta, R(resp.inp)), biases |-> delta]]

\* Network.propagate_back: adds the pattern's gradients into grad_net
propagate_back(dErr_dOut, resp, grad) ==
    [l \in Layers |->
        [weights |-> RAdd(grad[l].weights, PatternGrad(dErr_dOut, resp)[l].weights),
         biases  |-> RAdd(grad[l].biases, PatternGrad(dErr_dOut, resp)[l].biases)]]

\* freshly initialized weights and biases of a Network
InitWeights == [l \in Layers |-> R(l)]

InitBiases == [l \in Layers |-> R(0)]

(***************************************************************************)
(* State.                                                                  *)
(***************************************************************************)
VARIABLES
    pc,                 \* where the program is
    calls,              \* the number of optimize calls made on the optimizer object
    raised,             \* the exception that ended the last call, or "none"
    hyper,              \* the regularization entries of the hyperparameter configuration
    ctor_args,          \* the arguments of the constructor call
    self,               \* the optimizer object
    weights, biases,    \* net.layers[l].weights, net.layers[l].biases
    tr_x, tr_y, val_x, val_y, epochs, batch_size,       \* optimize: parameters
    epoch, batch_index, train_batch, targets_batch, pos, \* optimize: loop positions
    grad_net, momentum_net, step,
    epoch_tr_error, epoch_tr_metric, epoch_val_error, epoch_val_metric,
    tr_error_values, tr_metric_values, val_error_values, val_metric_values,
    pattern_grads,      \* history: the gradients propagate_back added in this batch
    epoch_log,          \* history: the loss and metric of every pattern of this epoch
    fn_args, fn_result, \* a direct call of a registry function: arguments and result
    fn_x,               \* the contents of the array passed to an activation function
    cv_pc,              \* cross_valid: where the call is
    cv_raised,          \* the exception that ended the call, or "none"
    cv_args,            \* cross_valid: tr_val_x, tr_val_y, epochs, k_folds
    x_folds, y_folds,   \* the folds of the inputs and of the targets
    cv_i,               \* the fold index i of the CV cycle
    cv_net,             \* the Network bound to net
    cv_curves,          \* the four arrays cross_valid accumulates and returns
    fold_log,           \* history: the sets, the network and the curves of every fold
    sff_args, sff_result, \* a call of sets_from_folds: arguments and result
    rp_pc,              \* randomize_params: where the call is
    rp_raised,          \* the exception that ended the call, or "none"
    rp_args,            \* randomize_params: base_params, fb_dim, n_config
    rand_params,        \* the dictionary randomize_params builds and returns
    rp_k,               \* the position in base_params.items() of the key k
    rp_i,               \* the index i of the loop over range(n_config)
    rp_value,           \* the value the resampling loop tests
    rp_draws,           \* history: how many values were drawn for the candidate
    ens_pc,             \* Ensembler: where the caller of the ensemble is
    ens_args,           \* the files given to Ensembler.__init__, and retrain
    ens_models,         \* self.models: per model the Network it refers to and its train_params
    ens_nets,           \* the Network objects: weights, cached input and output, optimizer
    ens_opts,           \* the optimizer objects: net, lr, base_lr, final_lr
    ens_jobs,           \* the running fit calls: position and the locals of optimize
    ens_overlap         \* history: a fit call took a step while another one was under way

objVars == <<raised, hyper, ctor_args, self>>

netVars == <<weights, biases>>

callVars == <<tr_x, tr_y, val_x, val_y, epochs, batch_size>>

loopVars == <<epoch, batch_index, train_batch, targets_batch, pos>>

sumVars == <<epoch_tr_error, epoch_tr_metric, epoch_val_error, epoch_val_metric>>

curveVars == <<tr_error_values, tr_metric_values, val_error_values, val_metric_values>>

optVars == <<objVars, netVars, callVars, loopVars, grad_net, momentum_net, step,
             sumVars, curveVars, pattern_grads, epoch_log, calls>>

fnVars == <<fn_args, fn_result, fn_x>>

cvVars == <<cv_pc, cv_raised, cv_args, x_folds, y_folds, cv_i, cv_net, cv_curves,
            fold_log, sff_args, sff_result>>

\* what the steps of the optimizer leave alone
rpVars == <<rp_pc, rp_raised, rp_args, rand_params, rp_k, rp_i, rp_value, rp_draws>>

ensVars == <<ens_pc, ens_args, ens_models, ens_nets, ens_opts, ens_jobs, ens_overlap>>

notOptVars == <<fnVars, cvVars, rpVars, ensVars>>

\* what the steps inside one optimize call leave alone
restVars == <<calls, notOptVars>>

NoObject == [kind |-> "none"]

NoArgs == [lr |-> R(0), loss |-> "", metr |-> "", lr_decay |-> "None", limit_step |-> 0,
           momentum |-> R(0)]

OptInit ==
    /\ pc = "new"
    /\ calls = 0
    /\ raised = "none"
    /\ hyper = [reg_type |-> "l2", lambd |-> R(0)]
    /\ ctor_args = NoArgs
    /\ self = NoObject
    /\ weights = InitWeights
    /\ biases = InitBiases
    /\ tr_x = <<>> /\ tr_y = <<>> /\ val_x = <<>> /\ val_y = <<>>
    /\ epochs = 0 /\ batch_size = 1
    /\ epoch = 0 /\ batch_index = 0 /\ train_batch = <<>> /\ targets_batch = <<>> /\ pos = 0
    /\ grad_net = get_empty_struct
    /\ momentum_net = get_empty_struct
    /\ step = 0
    /\ epoch_tr_error = Zeros /\ epoch_tr_metric = Zeros
    /\ epoch_val_error = Zeros /\ epoch_val_metric = Zeros
    /\ tr_error_values = <<>> /\ tr_metric_values = <<>>
    /\ val_error_values = <<>> /\ val_metric_values = <<>>
    /\ pattern_grads = <<>>
    /\ epoch_log = <<>>
    /\ fn_args = [func |-> "none"]
    /\ fn_result = R(0)
    /\ fn_x = <<>>

(***************************************************************************)
(* Optimizer.__init__ / GradientDescent.__init__                           *)
(***************************************************************************)
\* an lr check that rejects 1 and accepts 0
InvalidLr_open_at_one(lr) == RLt(lr, R(0)) \/ RLe(R(1), lr)

\* the lr check of the constructor
InvalidLr(lr) == RLe(lr, R(0)) \/ RLt(R(1), lr)

\* what the constructor call ends with: an exception, or the object
OptimizerInit(a) ==
    IF InvalidLr(a.lr)
    THEN [raised |-> "ValueError", obj |-> NoObject]
    ELSE IF a.loss \notin losses \/ a.metr \notin metrics
    THEN [raised |-> "KeyError", obj |-> NoObject]
    ELSE [raised |-> "none",
          obj |-> [kind |-> "gd", loss |-> a.loss, metr |-> a.metr,
                   lr |-> a.lr, base_lr |-> a.lr, final_lr |-> RDiv(a.lr, R(100)),
                   lr_decay |-> a.lr_decay, limit_step |-> a.limit_step,
                   momentum |-> a.momentum]]

\* limit_step is None (0 here) unless the linear schedule is configured
LimitInputs(lr_decay) == IF lr_decay = "linear" THEN 1..MaxLimitStep ELSE {0}

\* the constructor call with its arguments drawn from the given sets
ConstructWith(Hypers, Lrs, Losses, Metrs, Decays, Momentums) ==
    /\ pc = "new"
    /\ \E h \in Hypers : hyper' = h
    /\ \E lr \in Lrs, loss \in Losses, metr \in Metrs,
          lr_decay \in Decays, momentum \in Momentums :
         \E limit_step \in LimitInputs(lr_decay) :
            LET a == [lr |-> lr, loss |-> loss, metr |-> metr, lr_decay |-> lr_decay,
                      limit_step |-> limit_step, momentum |-> momentum]
                r == OptimizerInit(a)
            IN  /\ ctor_args' = a
                /\ raised' = r.raised
                /\ self' = r.obj
                /\ pc' = IF r.raised = "none" THEN "ready" ELSE "raised"
    /\ UNCHANGED <<netVars, callVars, loopVars, grad_net, momentum_net, step,
                   sumVars, curveVars, pattern_grads, epoch_log, restVars>>

Construct ==
    /\ pc = "new"
    /\ ConstructWith(HyperInputs, LrInputs, LossInputs, MetrInputs, DecayInputs,
                     MomentumInputs)

(***************************************************************************)
(* GradientDescent.optimize                                                *)
(***************************************************************************)
Min(a, b) == IF a < b THEN a ELSE b

\* the number of full batches only
Ceil_full_batches(a, b) == a \div b

\* math.ceil(a / b) for positive integers
Ceil(a, b) == (a + b - 1) \div b

\* the Python slice s[start: end] of a sequence (0-based, clipped to the length)
Slice(s, start, end) == SubSeq(s, start + 1, Min(end, Len(s)))

\* s[indexes]: the rows of s in the order of the shuffled indexes
Reorder(s, indexes) == [i \in 1..Len(s) |-> s[indexes[i]]]

\* np.add of an array and an array or a one-element list (which is broadcast)
np_add(a, b) == [u \in DOMAIN a |-> RAdd(a[u], IF Len(b) = 1 THEN b[1] ELSE b[u])]

\* np.sum(v) without the division by the number of units
MeanOverUnits_sum_only(v) == RSum(v)

\* np.sum(v) / float(len(v))
MeanOverUnits(v) == RDiv(RSum(v), R(Len(v)))

\* the call, lines 69-80, on a new optimizer object or on one that returned from a call:
\* momentum_net and step are locals of the call, self.lr is a field of the object
OptimizeWith(Ns, Es, Bss) ==
    /\ pc \in {"ready", "returned"}
    /\ calls' = calls + 1
    /\ \E n \in Ns, nv \in 1..MaxVal, e \in Es, bs \in Bss :
        /\ n * e <= MaxPresented
        /\ tr_x' = [i \in 1..n |-> PatternOf(i)]
        /\ tr_y' = [i \in 1..n |-> TargetOf(i)]
        /\ val_x' = [i \in 1..nv |-> PatternOf(MaxTrain + i)]
        /\ val_y' = [i \in 1..nv |-> TargetOf(MaxTrain + i)]
        /\ epochs' = e
        /\ batch_size' = bs
    /\ tr_error_values' = <<>> /\ tr_metric_values' = <<>>
    /\ val_error_values' = <<>> /\ val_metric_values' = <<>>
    /\ momentum_net' = get_empty_struct
    /\ step' = 0
    /\ epoch' = 0
    /\ pc' = "epoch"
    /\ UNCHANGED <<objVars, netVars, batch_index, train_batch, targets_batch, pos,
                   grad_net, sumVars, pattern_grads, epoch_log, notOptVars>>

\* the one optimize call of a training run
Optimize ==
    /\ pc = "ready"
    /\ OptimizeWith(1..MaxTrain, 1..MaxEpochs, 1..MaxBatch)

\* the head of the epoch loop: lines 83-97
EpochStart ==
    /\ pc = "epoch"
    /\ epoch < epochs
    /\ epoch_tr_error' = Zeros /\ epoch_tr_metric' = Zeros
    /\ epoch_val_error' = Zeros /\ epoch_val_metric' = Zeros
    /\ \E indexes \in Perms(Len(tr_x)) :
        /\ tr_x' = Reorder(tr_x, indexes)
        /\ tr_y' = Reorder(tr_y, indexes)
    /\ \E indexes \in Perms(Len(val_x)) :
        /\ val_x' = Reorder(val_x, indexes)
        /\ val_y' = Reorder(val_y, indexes)
    /\ batch_index' = 0
    /\ epoch_log' = <<>>
    /\ pc' = "batch"
    /\ UNCHANGED <<objVars, netVars, epochs, batch_size, epoch, train_batch, targets_batch,
                   pos, grad_net, momentum_net, step, curveVars, pattern_grads, restVars>>

\* the head of the batch loop: lines 100-105
BatchStart ==
    /\ pc = "batch"
    /\ LET start == batch_index * batch_size
           end == start + batch_size
       IN  /\ train_batch' = Slice(tr_x, start, end)
           /\ targets_batch' = Slice(tr_y, start, end)
    /\ grad_net' = get_empty_struct
    /\ pattern_grads' = <<>>
    /\ pos' = 1
    /\ pc' = "pattern"
    /\ UNCHANGED <<objVars, netVars, callVars, epoch, batch_index, momentum_net, step,
                   sumVars, curveVars, epoch_log, restVars>>

\* one pattern of the batch: lines 108-115
TrainPattern ==
    /\ pc = "pattern"
    /\ \E resp \in NetResponses :
        LET pattern == train_batch[pos]
            target == targets_batch[pos]
            net_outputs == forward(resp)
            dErr_dOut == squared_loss_deriv(net_outputs, target)
        IN  /\ epoch_tr_error' = np_add(epoch_tr_error, squared_loss(net_outputs, target))
            /\ epoch_tr_metric' =
                   np_add(epoch_tr_metric, binary_class_accuracy(net_outputs, target))
            /\ grad_net' = propagate_back(dErr_dOut, resp, grad_net)
            /\ pattern_grads' = Append(pattern_grads, PatternGrad(dErr_dOut, resp))
            /\ epoch_log' = Append(epoch_log,
                   [set |-> "tr", pattern |-> pattern,
                    loss |-> squared_loss(net_outputs, target),
                    metr |-> binary_class_accuracy(net_outputs, target)])
    /\ pos' = pos + 1
    /\ pc' = IF pos < Min(Len(train_batch), Len(targets_batch)) THEN "pattern" ELSE "decay"
    /\ UNCHANGED <<objVars, netVars, callVars, epoch, batch_index, train_batch,
                   targets_batch, momentum_net, step, epoch_val_error, epoch_val_metric,
                   curveVars, restVars>>

\* learning rate decay: lines 117-124
LrDecay ==
    /\ pc = "decay"
    /\ step' = step + 1
    /\ IF self.lr_decay = "None"
       THEN /\ pc' = "update"
            /\ UNCHANGED <<raised, self>>
       ELSE IF DecayCallRaises(self.lr_decay)
       THEN /\ raised' = "TypeError"
            /\ pc' = "raised"
            /\ UNCHANGED self
       ELSE /\ self' = [self EXCEPT !.lr = linear_lr_decay(self.lr, self.base_lr,
                                               self.final_lr, step + 1, self.limit_step)]
            /\ pc' = "update"
            /\ UNCHANGED raised
    /\ UNCHANGED <<hyper, ctor_args, netVars, callVars, loopVars, grad_net, momentum_net,
                   sumVars, curveVars, pattern_grads, epoch_log, restVars>>

\* grad_net[layer_index][...] /= float(batch_size): lines 128-129
AverageGrad(g, bs) == RDiv(g, R(bs))

\* a momentum buffer that is never scaled by the momentum coefficient
UpdateMomentum_unscaled(mom, g, lr, momentum) == RAdd(mom, RMul(lr, g))

\* the momentum buffer of one parameter: lines 131-139
UpdateMomentum(mom, g, lr, momentum) == RAdd(RMul(mom, momentum), RMul(lr, g))

\* the new value of one parameter: lines 140-143
UpdateParam(w, mom) == RAdd(w, mom)

\* weights update: lines 126-143, and the step of the batch loop
WeightsUpdate ==
    /\ pc = "update"
    /\ grad_net' = [l \in Layers |->
            [weights |-> AverageGrad(grad_net[l].weights, batch_size),
             biases  |-> AverageGrad(grad_net[l].biases, batch_size)]]
    /\ momentum_net' = [l \in Layers |->
            [weights |-> UpdateMomentum(momentum_net[l].weights, grad_net'[l].weights,
                                        self.lr, self.momentum),
             biases  |-> UpdateMomentum(momentum_net[l].biases, grad_net'[l].biases,
                                        self.lr, self.momentum)]]
    /\ weights' = [l \in Layers |-> UpdateParam(weights[l], momentum_net'[l].weights)]
    /\ biases' = [l \in Layers |-> UpdateParam(biases[l], momentum_net'[l].biases)]
    /\ batch_index' = batch_index + 1
    /\ pos' = 1
    /\ pc' = IF batch_index + 1 < Ceil(Len(tr_x), batch_size) THEN "batch" ELSE "validation"
    /\ UNCHANGED <<objVars, callVars, epoch, train_batch, targets_batch, step,
                   sumVars, curveVars, pattern_grads, epoch_log, restVars>>

\* one pattern of the validation set: lines 146-149
ValPattern ==
    /\ pc = "validation"
    /\ \E resp \in NetResponses :
        LET pattern == val_x[pos]
            target == val_y[pos]
            net_outputs == forward(resp)
        IN  /\ epoch_val_error' = np_add(epoch_val_error, squared_loss(net_outputs, target))
            /\ epoch_val_metric' =
                   np_add(epoch_val_metric, binary_class_accuracy(net_outputs, target))
            /\ epoch_log' = Append(epoch_log,
                   [set |-> "val", pattern |-> pattern,
                    loss |-> squared_loss(net_outputs, target),
                    metr |-> binary_class_accuracy(net_outputs, target)])
    /\ pos' = pos + 1
    /\ pc' = IF pos < Min(Len(val_x), Len(val_y)) THEN "validation" ELSE "epoch_end"
    /\ UNCHANGED <<objVars, netVars, callVars, epoch, batch_index, train_batch,
                   targets_batch, grad_net, momentum_net, step, epoch_tr_error,
                   epoch_tr_metric, curveVars, pattern_grads, restVars>>

\* the end of an epoch: lines 151-158
EpochEnd ==
    /\ pc = "epoch_end"
    /\ tr_error_values' =
           Append(tr_error_values, RDiv(MeanOverUnits(epoch_tr_error), R(Len(tr_x))))
    /\ tr_metric_values' =
           Append(tr_metric_values, RDiv(MeanOverUnits(epoch_tr_metric), R(Len(tr_x))))
    /\ val_error_values' =
           Append(val_error_values, RDiv(MeanOverUnits(epoch_val_error), R(Len(val_x))))
    /\ val_metric_values' =
           Append(val_metric_values, RDiv(MeanOverUnits(epoch_val_metric), R(Len(val_x))))
    /\ epoch' = epoch + 1
    /\ pc' = "epoch"
    /\ UNCHANGED <<objVars, netVars, callVars, batch_index, train_batch, targets_batch,
                   pos, grad_net, momentum_net, step, sumVars, pattern_grads, epoch_log, restVars>>

\* return tr_error_values, ...: line 160
Return ==
    /\ pc = "epoch"
    /\ epoch = epochs
    /\ pc' = "returned"
    /\ UNCHANGED <<objVars, netVars, callVars, loopVars, grad_net, momentum_net, step,
                   sumVars, curveVars, pattern_grads, epoch_log, restVars>>

(***************************************************************************)
(* A direct call of lr_decays['linear'].func, as the unit tests call the   *)
(* functions of the registry.                                              *)
(***************************************************************************)
DecayCall ==
    /\ pc = "new"
    /\ \E curr_lr \in {Rat(1, 200), Rat(1, 100), Rat(1, 2), R(1)},
          base_lr \in {Rat(1, 2), R(1)},
          curr_step \in 0..(MaxLimitStep + 1), limit_step \in 1..MaxLimitStep :
        LET final_lr == RDiv(base_lr, R(100))
        IN  /\ fn_args' = [func |-> "linear", curr_lr |-> curr_lr, base_lr |-> base_lr,
                           final_lr |-> final_lr, curr_step |-> curr_step,
                           limit_step |-> limit_step]
            /\ fn_result' = linear_lr_decay(curr_lr, base_lr, final_lr, curr_step, limit_step)
    /\ pc' = "fn_returned"
    /\ UNCHANGED <<fn_x, optVars, cvVars, rpVars, ensVars>>

OptNext ==
    \/ DecayCall
    \/ Construct
    \/ Optimize
    \/ EpochStart
    \/ BatchStart
    \/ TrainPattern
    \/ LrDecay
    \/ WeightsUpdate
    \/ ValPattern
    \/ EpochEnd
    \/ Return

(***************************************************************************)
(* Retraining: optimize called again on the same optimizer object and the  *)
(* same network.                                                           *)
(***************************************************************************)
\* one valid constructor call, with or without the linear schedule
ConstructOnce ==
    /\ pc = "new"
    /\ ConstructWith({[reg_type |-> "l2", lambd |-> R(0)]}, {R(1)}, {"squared"},
                     {"bin_class_acc"}, {"None", "linear"}, {Rat(1, 2)})

\* a call of optimize, the first one or a later one
Retrain ==
    /\ calls < MaxCalls
    /\ OptimizeWith({2}, {1}, 1..2)

RetrainNext ==
    \/ ConstructOnce
    \/ Retrain
    \/ EpochStart
    \/ BatchStart
    \/ TrainPattern
    \/ LrDecay
    \/ WeightsUpdate
    \/ ValPattern
    \/ EpochEnd
    \/ Return

(***************************************************************************)
(* model_selection.cross_valid and utility.sets_from_folds                 *)
(***************************************************************************)
\* the rows of the data set: row i of the inputs and row i of the targets
XRow(i) == 16777214 + i

YRow(i) == -i

\* a split whose last section takes the whole remainder
SectionStart_last_absorbs(n, k, j) == IF j > k THEN n ELSE (j - 1) * (n \div k)

\* np.array_split(ary, k): the first len % k sections hold len \div k + 1 rows,
\* the others len \div k; section j (1-based) starts after this many rows
SectionStart(n, k, j) == (j - 1) * (n \div k) + Min(j - 1, n % k)

array_split(ary, k) ==
    [j \in 1..k |-> Slice(ary, SectionStart(Len(ary), k, j), SectionStart(Len(ary), k, j + 1))]

\* the other folds, those after fold i first
FoldsWithout_after_first(folds, i) == SubSeq(folds, i + 2, Len(folds)) \o SubSeq(folds, 1, i)

\* np.concatenate((folds[: i], folds[i + 1:])): the folds without fold i (0-based)
FoldsWithout(folds, i) == SubSeq(folds, 1, i) \o SubSeq(folds, i + 2, Len(folds))

\* train_set = train_folds[0], then np.concatenate with train_folds[1], [2], ...
RECURSIVE ConcatFolds(_)
ConcatFolds(folds) ==
    IF Len(folds) = 1 THEN folds[1]
    ELSE ConcatFolds(SubSeq(folds, 1, Len(folds) - 1)) \o folds[Len(folds)]

\* np.array(a, dtype=np.float32) of integer values below 2^25: values from 2^24 on
\* are rounded to the nearest even integer, ties to a multiple of 4
Float32(v) ==
    IF Abs(v) < 16777216 \/ v % 2 = 0 THEN v
    ELSE IF (v + 1) % 4 = 0 THEN v + 1 ELSE v - 1

AsFloat32(a) == [i \in 1..Len(a) |-> Float32(a[i])]

\* sets_from_folds(x_folds, y_folds, val_fold_index); indexing an empty list of
\* folds raises IndexError
sets_from_folds(xf, yf, val_fold_index) ==
    IF FoldsWithout(xf, val_fold_index) = <<>>
    THEN [raised |-> "IndexError"]
    ELSE [raised |-> "none",
          tr_data |-> AsFloat32(ConcatFolds(FoldsWithout(xf, val_fold_index))),
          tr_targets |-> AsFloat32(ConcatFolds(FoldsWithout(yf, val_fold_index))),
          val_data |-> AsFloat32(xf[val_fold_index + 1]),
          val_targets |-> AsFloat32(yf[val_fold_index + 1])]

\* the four curves one net.fit returns, one value per epoch
FitOutcomes(e) ==
    { [tr_err |-> [n \in 1..e |-> Rat(r, n)], tr_metric |-> [n \in 1..e |-> R(r - 1)],
       val_err |-> [n \in 1..e |-> Rat(r + n, 2)], val_metric |-> [n \in 1..e |-> R(2 - r)]]
      : r \in 1..2 }

\* np.zeros(epochs)
np_zeros(n) == [i \in 1..n |-> R(0)]

\* a += b, element-wise
AddCurve(a, b) == [i \in 1..Len(a) |-> RAdd(a[i], b[i])]

\* the sum over the folds, left undivided
DivCurve_sum_only(a, k) == a

\* a /= float(k), element-wise
DivCurve(a, k) == [i \in 1..Len(a) |-> RDiv(a[i], R(k))]

\* Network(**params): a new network with freshly initialized weights
NewNetwork(id) == [id |-> id, params |-> "params", fits |-> 0]

CVInit ==
    /\ cv_pc = "new"
    /\ cv_raised = "none"
    /\ cv_args = [n |-> 0, k_folds |-> 0, epochs |-> 0]
    /\ x_folds = <<>>
    /\ y_folds = <<>>
    /\ cv_i = 0
    /\ cv_net = NewNetwork(0)
    /\ cv_curves = [tr_error_values |-> <<>>, tr_metric_values |-> <<>>,
                    val_error_values |-> <<>>, val_metric_values |-> <<>>]
    /\ fold_log = <<>>
    /\ sff_args = [n |-> 0, k_folds |-> 0, val_fold_index |-> 0]
    /\ sff_result = [raised |-> "none"]

\* the caller trains the network (model.fit) before it passes it to cross_valid
CallerFit ==
    /\ cv_pc = "new"
    /\ cv_net.fits = 0
    /\ cv_net' = [cv_net EXCEPT !.fits = 1]
    /\ UNCHANGED <<cv_pc, cv_raised, cv_args, x_folds, y_folds, cv_i, cv_curves, fold_log,
                   sff_args, sff_result>>
    /\ UNCHANGED <<pc, optVars, fnVars, rpVars, ensVars>>

\* the call: lines 7-13
CrossValid ==
    /\ cv_pc = "new"
    /\ \E k \in 1..MaxFolds, e \in 1..MaxCvEpochs :
        \E n \in k..MaxRows :
            /\ cv_args' = [n |-> n, k_folds |-> k, epochs |-> e]
            /\ x_folds' = array_split([i \in 1..n |-> XRow(i)], k)
            /\ y_folds' = array_split([i \in 1..n |-> YRow(i)], k)
            /\ cv_curves' = [tr_error_values |-> np_zeros(e), tr_metric_values |-> np_zeros(e),
                             val_error_values |-> np_zeros(e), val_metric_values |-> np_zeros(e)]
    /\ cv_i' = 0
    /\ cv_pc' = "cycle"
    /\ UNCHANGED <<cv_raised, cv_net, fold_log, sff_args, sff_result>>
    /\ UNCHANGED <<pc, optVars, fnVars, rpVars, ensVars>>

\* one iteration of the CV cycle: lines 16-52
Fold ==
    /\ cv_pc = "cycle"
    /\ IF FoldsWithout(x_folds, cv_i) = <<>>
       THEN /\ cv_raised' = "IndexError"
            /\ cv_pc' = "raised"
            /\ UNCHANGED <<cv_i, cv_net, cv_curves, fold_log>>
       ELSE \E fit \in FitOutcomes(cv_args.epochs) :
            LET valid_set == x_folds[cv_i + 1]
                valid_targets == y_folds[cv_i + 1]
                train_set == ConcatFolds(FoldsWithout(x_folds, cv_i))
                train_targets == ConcatFolds(FoldsWithout(y_folds, cv_i))
            IN  /\ fold_log' = Append(fold_log,
                       [i |-> cv_i, net_id |-> cv_net.id, fits_before |-> cv_net.fits,
                        params |-> cv_net.params,
                        train_set |-> train_set, train_targets |-> train_targets,
                        valid_set |-> valid_set, valid_targets |-> valid_targets,
                        fit |-> fit])
                /\ cv_curves' =
                       [tr_error_values |-> AddCurve(cv_curves.tr_error_values, fit.tr_err),
                        tr_metric_values |-> AddCurve(cv_curves.tr_metric_values, fit.tr_metric),
                        val_error_values |-> AddCurve(cv_curves.val_error_values, fit.val_err),
                        val_metric_values |->
                            AddCurve(cv_curves.val_metric_values, fit.val_metric)]
                /\ cv_net' = NewNetwork(cv_net.id + 1)
                /\ cv_i' = cv_i + 1
                /\ cv_pc' = IF cv_i + 1 < cv_args.k_folds THEN "cycle" ELSE "average"
                /\ UNCHANGED cv_raised
    /\ UNCHANGED <<cv_args, x_folds, y_folds, sff_args, sff_result>>
    /\ UNCHANGED <<pc, optVars, fnVars, rpVars, ensVars>>

\* the average over the folds and the return: lines 55-59
Average ==
    /\ cv_pc = "average"
    /\ cv_curves' =
           [tr_error_values |-> DivCurve(cv_curves.tr_error_values, cv_args.k_folds),
            tr_metric_values |-> DivCurve(cv_curves.tr_metric_values, cv_args.k_folds),
            val_error_values |-> DivCurve(cv_curves.val_error_values, cv_args.k_folds),
            val_metric_values |-> DivCurve(cv_curves.val_metric_values, cv_args.k_folds)]
    /\ cv_pc' = "returned"
    /\ UNCHANGED <<cv_raised, cv_args, x_folds, y_folds, cv_i, cv_net, fold_log,
                   sff_args, sff_result>>
    /\ UNCHANGED <<pc, optVars, fnVars, rpVars, ensVars>>

\* a call of sets_from_folds on the folds of a split
SetsFromFolds ==
    /\ cv_pc = "new"
    /\ cv_net.fits = 0
    /\ \E k \in 1..MaxFolds :
        \E n \in k..MaxRows, i \in 0..(k - 1) :
            /\ sff_args' = [n |-> n, k_folds |-> k, val_fold_index |-> i]
            /\ x_folds' = array_split([r \in 1..n |-> XRow(r)], k)
            /\ y_folds' = array_split([r \in 1..n |-> YRow(r)], k)
            /\ sff_result' = sets_from_folds(x_folds', y_folds', i)
    /\ cv_pc' = "sff_returned"
    /\ UNCHANGED <<cv_raised, cv_args, cv_i, cv_net, cv_curves, fold_log>>
    /\ UNCHANGED <<pc, optVars, fnVars, rpVars, ensVars>>

CVNext ==
    \/ CallerFit
    \/ CrossValid
    \/ Fold
    \/ Average
    \/ SetsFromFolds

(***************************************************************************)
(* utility.list_of_combos.  A hyperparameter value is a tuple: None is the *)
(* empty tuple, a string, number or boolean v is <<v>>, and a Python tuple *)
(* (units_per_layer, acts) is the tuple of its elements.                   *)
(***************************************************************************)
None == <<>>

Val(v) == <<v>>

\* sorted([...]): the expected keys in alphabetical order
expected_keys ==
    <<"acts", "batch_size", "decay_rate", "decay_steps", "epochs", "init_type", "lambd",
      "limit_step", "limits", "loss", "lr", "lr_decay", "metr", "momentum", "reg_type",
      "staircase", "units_per_layer">>

KeySet == {expected_keys[i] : i \in DOMAIN expected_keys}

\* expected_keys.index(k)
KeyIndex(k) == CHOOSE i \in DOMAIN expected_keys : expected_keys[i] = k

\* the default candidates of a key that param_dict lacks
DefaultCands(k) ==
    IF k = "reg_type" THEN <<Val("l2")>> ELSE IF k = "lambd" THEN <<Val(0)>> ELSE <<None>>

\* param_dict after the loop over expected_keys
FillDefaults(param_dict) ==
    [k \in KeySet |-> IF k \in DOMAIN param_dict THEN param_dict[k] ELSE DefaultCands(k)]

\* list(it.product(*(param_dict[k] for k in param_dict.keys()))) from key number i on:
\* the candidates of the last key vary fastest
RECURSIVE Product(_, _)
Product(pd, i) ==
    IF i > Len(expected_keys) THEN << <<>> >>
    ELSE LET rest == Product(pd, i + 1)
             cands == pd[expected_keys[i]]
             n == Len(rest)
         IN  [j \in 1..(Len(cands) * n) |->
                 <<cands[((j - 1) \div n) + 1]>> \o rest[((j - 1) % n) + 1]]

\* d = {k: c[i] for k, i in zip(expected_keys, range(len(expected_keys)))}
ComboDict(c) == [k \in KeySet |-> c[KeyIndex(k)]]

\* every combination of the product, whatever its lengths
FilterCombos_keep_all(combo_list) == [j \in 1..Len(combo_list) |-> ComboDict(combo_list[j])]

\* the filter on the lengths of units_per_layer and acts
RECURSIVE FilterCombos(_)
FilterCombos(combo_list) ==
    IF combo_list = <<>> THEN <<>>
    ELSE LET c == Head(combo_list)
         IN  (IF Len(c[KeyIndex("units_per_layer")]) = Len(c[KeyIndex("acts")])
              THEN <<ComboDict(c)>> ELSE <<>>) \o FilterCombos(Tail(combo_list))

\* a combination left as the product gave it
Reconcile_untouched(c) == c

\* the decay fields of one combination after the second loop
Reconcile(c) ==
    IF c["lr_decay"] = Val("linear")
    THEN [c EXCEPT !["decay_rate"] = None, !["decay_steps"] = None,
                   !["staircase"] = Val(FALSE)]
    ELSE IF c["lr_decay"] = Val("exponential")
    THEN [c EXCEPT !["limit_step"] = None]
    ELSE c

\* for i in range(len(combos) - 1): append combos[i] if combos[i] != combos[i + 1]
RECURSIVE DropAdjacent(_)
DropAdjacent(combos) ==
    IF Len(combos) <= 1 THEN <<>>
    ELSE (IF combos[1] # combos[2] THEN <<combos[1]>> ELSE <<>>)
             \o DropAdjacent(Tail(combos))

\* len(None) raises TypeError
LenRaises(combo_list) ==
    \E j \in 1..Len(combo_list) :
        \/ combo_list[j][KeyIndex("units_per_layer")] = None
        \/ combo_list[j][KeyIndex("acts")] = None

\* the combinations after the filter and the reconciliation of the decay fields
CombosOf(param_dict) ==
    LET combos == FilterCombos(Product(FillDefaults(param_dict), 1))
    IN  [j \in 1..Len(combos) |-> Reconcile(combos[j])]

list_of_combos(param_dict) ==
    IF LenRaises(Product(FillDefaults(param_dict), 1))
    THEN [raised |-> "TypeError", value |-> <<>>]
    ELSE [raised |-> "none", value |-> DropAdjacent(CombosOf(param_dict))]

\* the candidates of the grid: tuples of one or two values per key
UnitsCands == { << <<4>> >>, << <<4>>, <<4, 1>> >>, << <<4, 1>>, <<4>> >>,
                << <<4, 1>>, <<4, 1>> >> }

ActsCands == { << <<"relu">> >>, << <<"relu", "sigmoid">> >>,
               << <<"relu">>, <<"relu", "sigmoid">> >> }

LrDecayCands == { <<None>>, <<Val("linear")>>, <<Val("exponential")>>,
                  <<Val("linear"), Val("exponential")>> }

DecayRateCands == { <<None>>, <<Val(9)>>, <<Val(9), Val(8)>> }

LimitStepCands == { <<None>>, <<Val(100)>>, <<Val(100), Val(200)>> }

StaircaseCands == { <<Val(FALSE)>>, <<Val(FALSE), Val(TRUE)>> }

\* the keys a caller may leave out
MissingKeys == { {}, {"units_per_layer"}, {"decay_rate", "staircase"} }

ParamDictInputs ==
    { [k \in ({"units_per_layer", "acts", "lr_decay", "decay_rate", "limit_step",
               "staircase", "lr"} \ miss) |->
          CASE k = "units_per_layer" -> u
            [] k = "acts" -> a
            [] k = "lr_decay" -> ld
            [] k = "decay_rate" -> dr
            [] k = "limit_step" -> ls
            [] k = "staircase" -> st
            [] k = "lr" -> <<Val(1)>>]
      : u \in UnitsCands, a \in ActsCands, ld \in LrDecayCands, dr \in DecayRateCands,
        ls \in LimitStepCands, st \in StaircaseCands, miss \in MissingKeys }

ListOfCombos ==
    /\ pc = "new"
    /\ \E param_dict \in ParamDictInputs :
        /\ fn_args' = [func |-> "list_of_combos", param_dict |-> param_dict]
        /\ fn_result' = list_of_combos(param_dict)
    /\ pc' = "fn_returned"
    /\ UNCHANGED <<fn_x, optVars, cvVars, rpVars, ensVars>>

UtilNext ==
    \/ ListOfCombos

(***************************************************************************)
(* utility.get_best_models.  A result is None or the tuple <<loss, loss    *)
(* std, metric, metric std>>, each value in ten-thousandths; positions in  *)
(* lists are 1-based here, 0-based in the code.                            *)
(***************************************************************************)
\* round(v, 3) of a non-negative value: ten-thousandths to thousandths
Round3(v) ==
    LET q == v \div 10
        r == v % 10
    IN  IF r < 5 THEN q ELSE IF r > 5 THEN q + 1 ELSE IF q % 2 = 0 THEN q ELSE q + 1

\* the field of every result that is not None, rounded
RECURSIVE RoundedField(_, _)
RoundedField(results, f) ==
    IF results = <<>> THEN <<>>
    ELSE (IF Head(results) = None THEN <<>> ELSE <<Round3(Head(results)[f])>>)
             \o RoundedField(Tail(results), f)

SeqMin(a) == CHOOSE v \in {a[i] : i \in DOMAIN a} : \A i \in DOMAIN a : v <= a[i]

SeqMax(a) == CHOOSE v \in {a[i] : i \in DOMAIN a} : \A i \in DOMAIN a : v >= a[i]

\* np.argmin / np.argmax: the first position of the extreme value
ArgFirst(a, v) == CHOOSE i \in DOMAIN a : a[i] = v /\ \A j \in 1..(i - 1) : a[j] # v

\* a[indexes]
Take(a, indexes) == [p \in 1..Len(indexes) |-> a[indexes[p]]]

\* np.delete(a, i) and list.remove of the element at position i
DeleteAt(a, i) == SubSeq(a, 1, i - 1) \o SubSeq(a, i + 1, Len(a))

\* for j in indexes: if a[j] != best: indexes.remove(j)
\* the iterator moves on by one position after a removal too
RECURSIVE RemoveLoop(_, _, _, _)
RemoveLoop(indexes, p, a, best) ==
    IF p > Len(indexes) THEN indexes
    ELSE IF a[indexes[p]] # best THEN RemoveLoop(DeleteAt(indexes, p), p + 1, a, best)
    ELSE RemoveLoop(indexes, p + 1, a, best)

\* one tie-break stage: the best position among indexes and the indexes left
TieBreak(indexes, a) ==
    LET to_check == Take(a, indexes)
        value_of_best == SeqMin(to_check)
    IN  [index_of_best |-> indexes[ArgFirst(to_check, value_of_best)],
         indexes |-> RemoveLoop(indexes, 1, a, value_of_best)]

\* the positions after index_of_best whose metric equals value_of_best
LaterEqual(metrics_, index_of_best, value_of_best) ==
    SelectSeq([j \in 1..Len(metrics_) |-> j],
              LAMBDA j : j > index_of_best /\ metrics_[j] = value_of_best)

\* the body of the loop over range(n_models): the position selected
SelectBest(dataset, metrics_, std_metrics, errors, std_errors) ==
    LET value_of_best == IF dataset = "cup" THEN SeqMin(metrics_) ELSE SeqMax(metrics_)
        index_of_best == ArgFirst(metrics_, value_of_best)
    IN  IF Len(metrics_) > index_of_best
        THEN LET indexes == <<index_of_best>>
                                \o LaterEqual(metrics_, index_of_best, value_of_best)
                 s1 == TieBreak(indexes, std_metrics)
                 s2 == TieBreak(s1.indexes, errors)
                 s3 == TieBreak(s2.indexes, std_errors)
             IN  s3.index_of_best
        ELSE index_of_best

\* the loop over range(n_models); argmin of an empty array raises ValueError
RECURSIVE BestLoop(_, _, _, _, _, _, _)
BestLoop(n, dataset, metrics_, std_metrics, errors, std_errors, params) ==
    IF n = 0 THEN [raised |-> "none", params |-> params]
    ELSE IF metrics_ = <<>> THEN [raised |-> "ValueError", params |-> params]
    ELSE LET index_of_best == SelectBest(dataset, metrics_, std_metrics, errors, std_errors)
         IN  BestLoop(n - 1, dataset, DeleteAt(metrics_, index_of_best), std_metrics,
                      errors, std_errors, Append(params, index_of_best))

\* get_best_models: the positions in data['params'] of the models returned
get_best_models(dataset, results, n_models) ==
    BestLoop(n_models, dataset, RoundedField(results, 3), RoundedField(results, 4),
             RoundedField(results, 1), RoundedField(results, 2), <<>>)

MaxResults == 3

MaxModels == 2

DatasetInputs == {"cup", "monk"}

ResultInputs ==
    {None} \cup { <<e, se, m, sm>> : e \in {10, 20}, se \in {10, 20}, m \in {10, 14, 20},
                                     sm \in {10, 20} }

RECURSIVE SeqsOf(_, _)
SeqsOf(S, n) ==
    IF n = 0 THEN { <<>> } ELSE { <<x>> \o t : x \in S, t \in SeqsOf(S, n - 1) }

GetBestModels ==
    /\ pc = "new"
    /\ \E dataset \in DatasetInputs, n_models \in 1..MaxModels, len \in 1..MaxResults :
        \E results \in SeqsOf(ResultInputs, len) :
            /\ fn_args' = [func |-> "get_best_models", dataset |-> dataset,
                           results |-> results, n_models |-> n_models]
            /\ fn_result' = get_best_models(dataset, results, n_models)
    /\ pc' = "fn_returned"
    /\ UNCHANGED <<fn_x, optVars, cvVars, rpVars, ensVars>>

SelectNext ==
    \/ GetBestModels

(***************************************************************************)
(* utility.randomize_params.  A float x is the integer 10000 * x; the      *)
(* batch size "full" is the value Full; base_params is the sequence of     *)
(* its items <<key, value>>.                                               *)
(***************************************************************************)
Full == 0

MaxConfig == 3

\* the keys whose value does not change
FixedKeys == {"acts", "init_type", "decay_rate", "loss", "lr_decay", "metr", "reg_type",
              "staircase", "units_per_layer", "limits", "epochs"}

\* base_params[key]
BaseValue(base_params, key) ==
    LET p == CHOOSE q \in 1..Len(base_params) : base_params[q][1] = key
    IN  base_params[p][2]

\* the value compared with the base value only
CloseToBase_base_only(value, cands, p, eps) ==
    IF Abs(value - cands[1]) < eps THEN cands[1] ELSE value

\* for c in cands: if abs(value - c) < eps: value = cands[0]
RECURSIVE CloseToBase(_, _, _, _)
CloseToBase(value, cands, p, eps) ==
    IF p > Len(cands) THEN value
    ELSE CloseToBase(IF Abs(value - cands[p]) < eps THEN cands[1] ELSE value,
                     cands, p + 1, eps)

\* value in cands
InList(value, cands) == \E p \in 1..Len(cands) : cands[p] = value

Max(a, b) == IF a >= b THEN a ELSE b

\* the values np.random.normal(loc=v, scale) may return, a few of them
NormalDraws(v, scale) ==
    {v - 2 * scale, v - scale, v - (3 * scale) \div 10, v, v + (4 * scale) \div 10,
     v + scale, v + 2 * scale}

\* the spread of the normal draw and the distance below which a value is too close
Scale(k) == IF k = "momentum" THEN 1000 ELSE 10

Eps(k) == IF k = "batch_size" THEN 5 ELSE IF k = "momentum" THEN 500 ELSE 5

\* the first value drawn for key k around v
FirstDraws(k, v, fb_dim) ==
    IF k = "batch_size" THEN Max(v - 15, 1)..Min(v + 15, fb_dim)
    ELSE { Max(0, x) : x \in NormalDraws(v, Scale(k)) }

\* a value drawn in the body of the while loop
Redraws(k, v, fb_dim) ==
    IF k = "batch_size" THEN Max(v - 15, 1)..Min(v + 15, fb_dim)
    ELSE IF k = "momentum" THEN { Min(10000, x) : x \in NormalDraws(v, Scale(k)) }
    ELSE { Max(0, x) : x \in NormalDraws(v, Scale(k)) }

\* the condition of the while loop
MustResample(k, value, cands) ==
    InList(value, cands) \/ (k = "momentum" /\ value > 10000)

\* random.randint(max(1, v - 100), v + 100), a few of its values
StepDraws(v) == {Max(1, v - 100), v, v + 100}

\* the candidates stored without the base value once others exist
SetParam_without_base(rp, k, cands) ==
    [q \in (DOMAIN rp) \cup {k} |->
        IF q = k THEN (IF Len(cands) > 1 THEN Tail(cands) ELSE cands) ELSE rp[q]]

\* rand_params[k] = cands
SetParam(rp, k, cands) ==
    [q \in (DOMAIN rp) \cup {k} |-> IF q = k THEN cands ELSE rp[q]]

RPInit ==
    /\ rp_pc = "new"
    /\ rp_raised = "none"
    /\ rp_args = [base_params |-> <<>>, fb_dim |-> 0, n_config |-> 0]
    /\ rand_params = <<>>
    /\ rp_k = 0
    /\ rp_i = 0
    /\ rp_value = 0
    /\ rp_draws = 0

\* the base configurations: the fixed keys acts and lr_decay and some perturbed keys
BaseParamsInputs ==
    { << <<"acts", <<"relu">> >>, <<"lr_decay", None>>, <<"batch_size", bs>> >>
          : bs \in {Full, 4, 10} }
    \cup { << <<"acts", <<"relu">> >>, <<"lr_decay", ld>>, <<"limit_step", ls>>,
              <<"decay_steps", ds>> >>
          : ld \in {None, Val("linear"), Val("exponential")},
            ls \in {None, Val(50)}, ds \in {None, Val(200)} }
    \cup { << <<"lr_decay", None>>, <<k, v>> >>
          : k \in {"lr", "lambd"}, v \in {0, 5, 10000} }
    \cup { << <<"lr_decay", None>>, <<"momentum", v>>, <<"epochs", 100>> >>
          : v \in {0, 300, 9000, 10000} }

FbDimInputs == {12, 20}

\* the call: n_config -= 1, rand_params = {}
RandomizeParams ==
    /\ rp_pc = "new"
    /\ \E base_params \in BaseParamsInputs, fb_dim \in FbDimInputs, n_config \in 1..MaxConfig :
        rp_args' = [base_params |-> base_params, fb_dim |-> fb_dim, n_config |-> n_config - 1]
    /\ rand_params' = <<>>
    /\ rp_k' = 1
    /\ rp_pc' = "key"
    /\ UNCHANGED <<rp_raised, rp_i, rp_value, rp_draws>>
    /\ UNCHANGED <<pc, optVars, fnVars, cvVars, ensVars>>

\* the head of the loop over base_params.items(), and the return
NextKey ==
    /\ rp_pc = "key"
    /\ IF rp_k > Len(rp_args.base_params)
       THEN /\ rp_pc' = "returned"
            /\ UNCHANGED <<rand_params, rp_i>>
       ELSE LET k == rp_args.base_params[rp_k][1]
                v == rp_args.base_params[rp_k][2]
            IN  /\ rand_params' = SetParam(rand_params, k, <<v>>)
                /\ rp_i' = 0
                /\ rp_pc' = IF k \in FixedKeys THEN "next" ELSE "iter"
    /\ UNCHANGED <<rp_raised, rp_args, rp_k, rp_value, rp_draws>>
    /\ UNCHANGED <<pc, optVars, fnVars, cvVars, ensVars>>

\* the end of one key's body
KeyDone ==
    /\ rp_pc = "next"
    /\ rp_k' = rp_k + 1
    /\ rp_pc' = "key"
    /\ UNCHANGED <<rp_raised, rp_args, rand_params, rp_i, rp_value, rp_draws>>
    /\ UNCHANGED <<pc, optVars, fnVars, cvVars, ensVars>>

\* one iteration of the loop over range(n_config), up to the while loop
Iterate ==
    /\ rp_pc = "iter"
    /\ LET k == rp_args.base_params[rp_k][1]
           v == rp_args.base_params[rp_k][2]
           lr_decay == BaseValue(rp_args.base_params, "lr_decay")
       IN  IF rp_i >= rp_args.n_config
           THEN /\ rp_pc' = "next"
                /\ UNCHANGED <<rp_raised, rand_params, rp_i, rp_value, rp_draws>>
           ELSE IF k = "batch_size" /\ v = Full
           THEN /\ rand_params' = SetParam(rand_params, k, <<Full>>)
                /\ rp_i' = rp_i + 1
                /\ UNCHANGED <<rp_pc, rp_raised, rp_value, rp_draws>>
           ELSE IF k \in {"limit_step", "decay_steps"}
           THEN /\ IF lr_decay # None
                   THEN IF \/ v = None
                           \/ (lr_decay = Val("linear") /\ k = "decay_steps")
                           \/ (lr_decay = Val("exponential") /\ k = "limit_step")
                        THEN rand_params' = SetParam(rand_params, k, <<None>>)
                        ELSE \E d \in StepDraws(v[1]) :
                                 rand_params' =
                                     SetParam(rand_params, k, Append(rand_params[k], Val(d)))
                   ELSE rand_params' = SetParam(rand_params, k, <<v>>)
                /\ rp_i' = rp_i + 1
                /\ UNCHANGED <<rp_pc, rp_raised, rp_value, rp_draws>>
           ELSE IF k \in {"batch_size", "lambd", "lr", "momentum"}
           THEN IF FirstDraws(k, v, rp_args.fb_dim) = {}
                THEN /\ rp_raised' = "ValueError"
                     /\ rp_pc' = "raised"
                     /\ UNCHANGED <<rand_params, rp_i, rp_value, rp_draws>>
                ELSE /\ \E d \in FirstDraws(k, v, rp_args.fb_dim) :
                         rp_value' = CloseToBase(d, rand_params[k], 1, Eps(k))
                     /\ rp_draws' = 1
                     /\ rp_pc' = "while"
                     /\ UNCHANGED <<rp_raised, rand_params, rp_i>>
           ELSE /\ rp_i' = rp_i + 1
                /\ UNCHANGED <<rp_pc, rp_raised, rand_params, rp_value, rp_draws>>
    /\ UNCHANGED <<rp_args, rp_k>>
    /\ UNCHANGED <<pc, optVars, fnVars, cvVars, ensVars>>

\* the test of the while loop: one more draw, or the append
Resample ==
    /\ rp_pc = "while"
    /\ LET k == rp_args.base_params[rp_k][1]
           v == rp_args.base_params[rp_k][2]
       IN  IF MustResample(k, rp_value, rand_params[k])
           THEN /\ \E d \in Redraws(k, v, rp_args.fb_dim) :
                    rp_value' = CloseToBase(d, rand_params[k], 1, Eps(k))
                /\ rp_draws' = 2
                /\ UNCHANGED <<rp_pc, rand_params, rp_i>>
           ELSE /\ rand_params' = SetParam(rand_params, k, Append(rand_params[k], rp_value))
                /\ rp_i' = rp_i + 1
                /\ rp_pc' = "iter"
                /\ UNCHANGED <<rp_value, rp_draws>>
    /\ UNCHANGED <<rp_raised, rp_args, rp_k>>
    /\ UNCHANGED <<pc, optVars, fnVars, cvVars, ensVars>>

RandomNext ==
    \/ RandomizeParams
    \/ NextKey
    \/ KeyDone
    \/ Iterate
    \/ Resample

(***************************************************************************)
(* functions.py: the activation functions and a direct call of the squared *)
(* loss.  A call yields the value returned and the contents of the array   *)
(* x after the call.                                                       *)
(***************************************************************************)
MaxArr == 2

MaxVec == 4

\* np.exp and np.tanh on the inputs used, to four decimals
SigmoidValue(v) ==
    CASE v = R(-1) -> Rat(2689, 10000)
      [] v = R(0) -> Rat(1, 2)
      [] v = R(1) -> Rat(7311, 10000)
      [] v = R(2) -> Rat(8808, 10000)

TanhValue(v) ==
    CASE v = R(-1) -> Rat(-7616, 10000)
      [] v = R(0) -> R(0)
      [] v = R(1) -> Rat(7616, 10000)
      [] v = R(2) -> Rat(9640, 10000)

identity(x) == [value |-> x, x |-> x]

identity_deriv(x) == [value |-> R(1), x |-> x]

relu(x) == [value |-> [i \in DOMAIN x |-> IF RLt(x[i], R(0)) THEN R(0) ELSE x[i]], x |-> x]

\* x[x <= 0] = 0; x[x > 0] = 1; return x
relu_deriv(x) ==
    LET x1 == [i \in DOMAIN x |-> IF RLe(x[i], R(0)) THEN R(0) ELSE x[i]]
        x2 == [i \in DOMAIN x |-> IF RLt(R(0), x1[i]) THEN R(1) ELSE x1[i]]
    IN  [value |-> x2, x |-> x2]

leaky_relu(x) ==
    [value |-> [i \in DOMAIN x |-> IF RLe(R(0), x[i]) THEN x[i] ELSE RMul(Rat(1, 100), x[i])],
     x |-> x]

\* x[x > 0] = 1.; x[x <= 0] = 0.01; return x
leaky_relu_deriv(x) ==
    LET x1 == [i \in DOMAIN x |-> IF RLt(R(0), x[i]) THEN R(1) ELSE x[i]]
        x2 == [i \in DOMAIN x |-> IF RLe(x1[i], R(0)) THEN Rat(1, 100) ELSE x1[i]]
    IN  [value |-> x2, x |-> x2]

sigmoid(x) == [value |-> [i \in DOMAIN x |-> SigmoidValue(x[i])], x |-> x]

sigmoid_deriv(x) ==
    [value |-> [i \in DOMAIN x |->
                   RMul(sigmoid(x).value[i], RSub(R(1), sigmoid(x).value[i]))],
     x |-> x]

tanh(x) == [value |-> [i \in DOMAIN x |-> TanhValue(x[i])], x |-> x]

tanh_deriv(x) ==
    [value |-> [i \in DOMAIN x |-> RSub(R(1), RMul(TanhValue(x[i]), TanhValue(x[i])))],
     x |-> x]

\* act_funcs[name].func(x) and act_funcs[name].deriv(x)
act_funcs(name, part, x) ==
    CASE name = "identity" /\ part = "func" -> identity(x)
      [] name = "identity" /\ part = "deriv" -> identity_deriv(x)
      [] name = "relu" /\ part = "func" -> relu(x)
      [] name = "relu" /\ part = "deriv" -> relu_deriv(x)
      [] name = "leaky_relu" /\ part = "func" -> leaky_relu(x)
      [] name = "leaky_relu" /\ part = "deriv" -> leaky_relu_deriv(x)
      [] name = "sigmoid" /\ part = "func" -> sigmoid(x)
      [] name = "sigmoid" /\ part = "deriv" -> sigmoid_deriv(x)
      [] name = "tanh" /\ part = "func" -> tanh(x)
      [] name = "tanh" /\ part = "deriv" -> tanh_deriv(x)

ActNames == {"identity", "relu", "leaky_relu", "sigmoid", "tanh"}

ActInputs == {R(-1), R(0), R(1), R(2)}

LossValueInputs == {R(0), Rat(1, 2), R(1)}

\* a call of the forward or the derivative of a registered activation on an array
ActivationCall ==
    /\ pc = "new"
    /\ \E name \in ActNames, part \in {"func", "deriv"}, len \in 1..MaxArr :
        \E x \in SeqsOf(ActInputs, len) :
            /\ fn_args' = [func |-> name, part |-> part, x |-> x]
            /\ fn_result' = act_funcs(name, part, x).value
            /\ fn_x' = act_funcs(name, part, x).x
    /\ pc' = "fn_returned"
    /\ UNCHANGED <<optVars, cvVars, rpVars, ensVars>>

\* losses['squared'].func and .deriv called on the same vectors
LossCall ==
    /\ pc = "new"
    /\ \E len \in 1..MaxVec :
        \E predicted \in SeqsOf(LossValueInputs, len), target \in SeqsOf(LossValueInputs, len) :
            /\ fn_args' = [func |-> "squared", predicted |-> predicted, target |-> target]
            /\ fn_result' = [func |-> squared_loss(predicted, target),
                             deriv |-> squared_loss_deriv(predicted, target)]
    /\ pc' = "fn_returned"
    /\ UNCHANGED <<fn_x, optVars, cvVars, rpVars, ensVars>>

FnNext ==
    \/ ActivationCall
    \/ LossCall

(***************************************************************************)
(* ensembler.Ensembler: one Network per model file, compiled and fitted,   *)
(* the fit calls running side by side.  A Network here has one weight; a   *)
(* fit call is the optimize loop of one epoch with batches of one pattern. *)
(***************************************************************************)
\* the patterns and targets every model is fitted on
EnsPattern(i) == i

EnsTarget(i) == 3 - i

\* one Network object referred to by every entry of self.models
NewNetworks_shared(n) == [i \in 1..n |-> 1]

\* Network(**models_data['model_params']) for each file: a new object every time
NewNetworks(n) == [i \in 1..n |-> i]

\* the weights of the file's model: freshly initialized, or those stored in the file
FileWeights(i, retrain) == IF retrain THEN R(1) ELSE R(i + 1)

\* the last position of self.models that refers to the object id
LastOf(ids, id) == CHOOSE i \in 1..Len(ids) : ids[i] = id /\ \A q \in (i + 1)..Len(ids) : ids[q] # id

EnsInit ==
    /\ ens_pc = "new"
    /\ ens_args = [n |-> 0, retrain |-> FALSE, lrs |-> <<>>]
    /\ ens_models = <<>>
    /\ ens_nets = <<>>
    /\ ens_opts = <<>>
    /\ ens_jobs = <<>>
    /\ ens_overlap = FALSE

\* Ensembler.__init__
EnsemblerInit ==
    /\ ens_pc = "new"
    /\ \E n \in 1..MaxEnsemble, retrain \in BOOLEAN :
        \E lrs \in [1..n -> {Rat(1, 2), R(1)}] :
            LET ids == NewNetworks(n)
            IN  /\ ens_args' = [n |-> n, retrain |-> retrain, lrs |-> lrs]
                /\ ens_models' = [i \in 1..n |-> [model |-> ids[i],
                                                  train_params |-> [lr |-> lrs[i]]]]
                /\ ens_nets' = [id \in {ids[i] : i \in 1..n} |->
                                   [weights |-> FileWeights(LastOf(ids, id), retrain),
                                    inp |-> 0, out |-> R(0), opt |-> 0]]
    /\ ens_pc' = "built"
    /\ UNCHANGED <<ens_opts, ens_jobs, ens_overlap>>
    /\ UNCHANGED <<pc, optVars, fnVars, cvVars, rpVars>>

\* Network.compile: the network gets a new optimizer object that refers back to it
NewOptimizer(net, train_params) ==
    [net |-> net, lr |-> train_params.lr, base_lr |-> train_params.lr,
     final_lr |-> RDiv(train_params.lr, R(100)), limit_step |-> EnsTrain,
     momentum |-> Rat(1, 2)]

\* Ensembler.compile
EnsemblerCompile ==
    /\ ens_pc = "built"
    /\ ens_opts' = [o \in 1..Len(ens_models) |->
                       NewOptimizer(ens_models[o].model, ens_models[o].train_params)]
    /\ ens_nets' = [id \in DOMAIN ens_nets |->
                       [ens_nets[id] EXCEPT !.opt =
                           LastOf([o \in 1..Len(ens_models) |-> ens_models[o].model], id)]]
    /\ ens_pc' = "compiled"
    /\ UNCHANGED <<ens_args, ens_models, ens_jobs, ens_overlap>>
    /\ UNCHANGED <<pc, optVars, fnVars, cvVars, rpVars>>

\* Ensembler.fit_parallel: one fit call per model, each with its own shuffle;
\* net.fit hands over to self.opt.optimize, whose locals are momentum_net and step
FitParallel ==
    /\ ens_pc = "compiled"
    /\ \E orders \in [1..Len(ens_models) -> Perms(EnsTrain)] :
        ens_jobs' = [j \in 1..Len(ens_models) |->
                        [at |-> "forward", opt |-> ens_nets[ens_models[j].model].opt,
                         indexes |-> orders[j], pos |-> 1, step |-> 0,
                         momentum_net |-> R(0), grad_net |-> R(0)]]
    /\ ens_pc' = "fitting"
    /\ UNCHANGED <<ens_args, ens_models, ens_nets, ens_opts, ens_overlap>>
    /\ UNCHANGED <<pc, optVars, fnVars, cvVars, rpVars>>

\* net = self.net of the optimizer the fit call j runs
JobNet(j) == ens_opts[ens_jobs[j].opt].net

\* another fit call has started and has not finished
OthersUnderWay(j) ==
    \E q \in DOMAIN ens_jobs :
        /\ q # j
        /\ ens_jobs[q].at # "done"
        /\ (ens_jobs[q].at # "forward" \/ ens_jobs[q].pos > 1)

\* Network.forward: caches the input and the output of the layer
NetForward(net, inp) == [net EXCEPT !.inp = inp, !.out = RMul(net.weights, R(inp))]

\* Network.propagate_back: the gradient from the cached input and dErr_dOut, added to grad
NetPropagateBack(net, dErr_dOut, grad) == RAdd(grad, RMul(RNeg(dErr_dOut), R(net.inp)))

\* the derivative of the squared loss of one output
EnsLossDeriv(predicted, target) == RSub(predicted, target)

\* net.forward(inp=pattern) of fit call j
JobForward ==
    /\ ens_pc = "fitting"
    /\ \E j \in DOMAIN ens_jobs :
        /\ ens_jobs[j].at = "forward"
        /\ ens_nets' = [ens_nets EXCEPT ![JobNet(j)] =
               NetForward(@, EnsPattern(ens_jobs[j].indexes[ens_jobs[j].pos]))]
        /\ ens_jobs' = [ens_jobs EXCEPT ![j].at = "backward", ![j].grad_net = R(0)]
        /\ ens_overlap' = (ens_overlap \/ OthersUnderWay(j))
    /\ UNCHANGED <<ens_pc, ens_args, ens_models, ens_opts>>
    /\ UNCHANGED <<pc, optVars, fnVars, cvVars, rpVars>>

\* dErr_dOut of the cached output and net.propagate_back of fit call j
JobBackward ==
    /\ ens_pc = "fitting"
    /\ \E j \in DOMAIN ens_jobs :
        /\ ens_jobs[j].at = "backward"
        /\ LET target == R(EnsTarget(ens_jobs[j].indexes[ens_jobs[j].pos]))
               dErr_dOut == EnsLossDeriv(ens_nets[JobNet(j)].out, target)
           IN  ens_jobs' = [ens_jobs EXCEPT ![j].at = "decay",
                   ![j].grad_net = NetPropagateBack(ens_nets[JobNet(j)], dErr_dOut, @)]
        /\ ens_overlap' = (ens_overlap \/ OthersUnderWay(j))
    /\ UNCHANGED <<ens_pc, ens_args, ens_models, ens_nets, ens_opts>>
    /\ UNCHANGED <<pc, optVars, fnVars, cvVars, rpVars>>

\* step += 1 and the linear decay of self.lr of fit call j
JobDecay ==
    /\ ens_pc = "fitting"
    /\ \E j \in DOMAIN ens_jobs :
        /\ ens_jobs[j].at = "decay"
        /\ LET o == ens_opts[ens_jobs[j].opt]
           IN  ens_opts' = [ens_opts EXCEPT ![ens_jobs[j].opt].lr =
                   linear_lr_decay(o.lr, o.base_lr, o.final_lr, ens_jobs[j].step + 1,
                                   o.limit_step)]
        /\ ens_jobs' = [ens_jobs EXCEPT ![j].at = "update", ![j].step = @ + 1]
        /\ ens_overlap' = (ens_overlap \/ OthersUnderWay(j))
    /\ UNCHANGED <<ens_pc, ens_args, ens_models, ens_nets>>
    /\ UNCHANGED <<pc, optVars, fnVars, cvVars, rpVars>>

\* the weights update of fit call j, and the step of its batch loop
JobUpdate ==
    /\ ens_pc = "fitting"
    /\ \E j \in DOMAIN ens_jobs :
        /\ ens_jobs[j].at = "update"
        /\ LET o == ens_opts[ens_jobs[j].opt]
               mom == UpdateMomentum(ens_jobs[j].momentum_net,
                                     AverageGrad(ens_jobs[j].grad_net, 1), o.lr, o.momentum)
           IN  /\ ens_nets' = [ens_nets EXCEPT ![JobNet(j)].weights = UpdateParam(@, mom)]
               /\ ens_jobs' = [ens_jobs EXCEPT
                      ![j].momentum_net = mom,
                      ![j].pos = @ + 1,
                      ![j].at = IF ens_jobs[j].pos < EnsTrain THEN "forward" ELSE "done"]
        /\ ens_overlap' = (ens_overlap \/ OthersUnderWay(j))
    /\ UNCHANGED <<ens_pc, ens_args, ens_models, ens_opts>>
    /\ UNCHANGED <<pc, optVars, fnVars, cvVars, rpVars>>

\* every fit call has returned
Joined ==
    /\ ens_pc = "fitting"
    /\ \A j \in DOMAIN ens_jobs : ens_jobs[j].at = "done"
    /\ ens_pc' = "joined"
    /\ UNCHANGED <<ens_args, ens_models, ens_nets, ens_opts, ens_jobs, ens_overlap>>
    /\ UNCHANGED <<pc, optVars, fnVars, cvVars, rpVars>>

EnsembleNext ==
    \/ EnsemblerInit
    \/ EnsemblerCompile
    \/ FitParallel
    \/ JobForward
    \/ JobBackward
    \/ JobDecay
    \/ JobUpdate
    \/ Joined

vars == <<pc, optVars, fnVars, cvVars, rpVars, ensVars>>

Init == OptInit /\ CVInit /\ RPInit /\ EnsInit

Next == OptNext

Spec == Init /\ [][Next]_vars

SpecRetrain == Init /\ [][RetrainNext]_vars

SpecEnsemble == Init /\ [][EnsembleNext]_vars

SpecCV == Init /\ [][CVNext]_vars

SpecUtil == Init /\ [][UtilNext]_vars

SpecSelect == Init /\ [][SelectNext]_vars

SpecRandom == Init /\ [][RandomNext]_vars

SpecFn == Init /\ [][FnNext]_vars

\* a step of the while loop that leaves it with a value the loop accepts
AcceptedDraw ==
    /\ Resample
    /\ ~MustResample(rp_args.base_params[rp_k][1], rp_value',
                     rand_params[rp_args.base_params[rp_k][1]])

\* randomize_params keeps running, and a value the resampling loop can accept is drawn
\* eventually whenever one exists
SpecRandomFair ==
    Init /\ [][RandomNext]_vars /\ WF_vars(RandomNext) /\ SF_vars(AcceptedDraw)

(***************************************************************************)
(* Properties of the batch update.                                         *)
(***************************************************************************)
\* the step that WeightsUpdate takes
IsWeightsUpdate == pc = "update" /\ pc' # "update"

\* the states right after a weights update, before the next batch is sliced
AfterUpdate == pc \in {"batch", "validation"} /\ batch_index > 0

\* the sum of one parameter's gradients over the patterns of the batch
RECURSIVE SumGrads(_, _, _)
SumGrads(grads, l, field) ==
    IF grads = <<>> THEN R(0)
    ELSE RAdd(IF field = "weights" THEN Head(grads)[l].weights ELSE Head(grads)[l].biases,
              SumGrads(Tail(grads), l, field))

\* C1: in every batch update, for every layer, the momentum buffer becomes
\* momentum * (previous buffer) + lr * (the batch gradient after its division), and the
\* weights become (previous weights) + (new buffer); the same holds for the biases; with
\* momentum = 0 the update is weights += lr * gradient.
C1_MomentumUpdate ==
    [][IsWeightsUpdate =>
        \A l \in Layers :
            /\ momentum_net'[l].weights =
                   RAdd(RMul(self.momentum, momentum_net[l].weights),
                        RMul(self.lr, grad_net'[l].weights))
            /\ momentum_net'[l].biases =
                   RAdd(RMul(self.momentum, momentum_net[l].biases),
                        RMul(self.lr, grad_net'[l].biases))
            /\ weights'[l] = RAdd(weights[l], momentum_net'[l].weights)
            /\ biases'[l] = RAdd(biases[l], momentum_net'[l].biases)
            /\ self.momentum = R(0) =>
                   /\ weights'[l] = RAdd(weights[l], RMul(self.lr, grad_net'[l].weights))
                   /\ biases'[l] = RAdd(biases[l], RMul(self.lr, grad_net'[l].biases))]_vars

\* C1 witness: a second update with momentum 1/2 whose buffer carries the first update
C1_Witness ==
    /\ AfterUpdate
    /\ step >= 2
    /\ self.momentum = Rat(1, 2)
    /\ \A l \in Layers :
        /\ momentum_net[l].weights # RMul(self.lr, grad_net[l].weights)
        /\ momentum_net[l].biases # RMul(self.lr, grad_net[l].biases)
        /\ grad_net[l].weights # R(0)

\* C2: for every batch, a short last batch included, the gradient used for the update is
\* the average of the per-pattern gradients of that batch: the sum of the gradients of
\* exactly the patterns of the batch, divided by the number of patterns in the batch.
C2_BatchAverage ==
    AfterUpdate =>
        /\ Len(pattern_grads) = Len(train_batch)
        /\ \A l \in Layers :
            /\ grad_net[l].weights =
                   RDiv(SumGrads(pattern_grads, l, "weights"), R(Len(pattern_grads)))
            /\ grad_net[l].biases =
                   RDiv(SumGrads(pattern_grads, l, "biases"), R(Len(pattern_grads)))

\* C3: in every batch update a penalty gradient scaled by lambd is added to the weight
\* update: where the penalty gradient of a weight is not zero (lambd > 0, weight not
\* zero), the new weight differs from the one the unregularized update gives.
C3_RegularizedUpdate ==
    [][IsWeightsUpdate =>
        \A l \in Layers :
            RegDeriv(hyper.reg_type, weights[l], hyper.lambd) # R(0) =>
                weights'[l] #
                    RAdd(weights[l],
                         RAdd(RMul(self.momentum, momentum_net[l].weights),
                              RMul(self.lr, RDiv(grad_net[l].weights, R(batch_size)))))]_vars

(***************************************************************************)
(* Properties of the learning rate.                                        *)
(***************************************************************************)
InRun == pc \in {"epoch", "batch", "pattern", "decay", "update", "validation",
                 "epoch_end", "returned"}

\* the step that LrDecay takes
IsLrDecay == pc = "decay" /\ pc' # "decay"

\* C4: with a schedule configured ('linear' or 'exponential'), every batch advances the
\* step counter by exactly one and then sets lr to the schedule's value for the new step,
\* without error; the step counter is not reset between the epochs of a run; with no
\* schedule lr stays equal to base_lr.
C4_DecayEveryBatch ==
    [][/\ IsLrDecay =>
            /\ step' = step + 1
            /\ raised' = "none"
            /\ self.lr_decay = "None" => self'.lr = self.base_lr
            /\ self.lr_decay = "linear" =>
                   self'.lr = linear_lr_decay(self.lr, self.base_lr, self.final_lr,
                                              step', self.limit_step)
       /\ (InRun /\ ~IsLrDecay) => step' = step]_vars

\* the value of the linear schedule at step s, in closed form
LinearValue(base_lr, s, limit_step) ==
    IF s < limit_step
    THEN Rat(base_lr[1] * (100 * limit_step - 99 * s), base_lr[2] * 100 * limit_step)
    ELSE Rat(base_lr[1], base_lr[2] * 100)

C5_Inv ==
    /\ (InRun /\ self.lr_decay = "linear") =>
            /\ self.final_lr = Rat(self.base_lr[1], self.base_lr[2] * 100)
            /\ RLe(self.final_lr, self.lr)
            /\ pc \in {"update", "batch", "validation", "epoch_end"} /\ step > 0 =>
                   self.lr = LinearValue(self.base_lr, step, self.limit_step)
    /\ (pc = "fn_returned" /\ fn_args.func = "linear"
            /\ fn_args.curr_step < fn_args.limit_step
            /\ RLe(fn_args.curr_lr, fn_args.final_lr)) => fn_result = fn_args.final_lr

C5_Step == (InRun /\ self.lr_decay = "linear") => RLe(self'.lr, self.lr)

\* C5: with linear decay, in an optimize run on a freshly constructed optimizer, the lr
\* used at the batch with step counter s is (1 - s/limit_step) * base_lr +
\* (s/limit_step) * final_lr for s < limit_step and final_lr = base_lr/100 from
\* limit_step on; linear_lr_decay returns final_lr whenever curr_lr <= final_lr before
\* the limit; the lr values of the run never increase and are never below final_lr.
C5_LinearDecay == []C5_Inv /\ [][C5_Step]_vars

\* C5 witness: a run that decays below base_lr before the limit and then reaches final_lr
C5_Witness ==
    /\ pc = "update"
    /\ self.lr_decay = "linear"
    /\ self.limit_step = 3
    /\ step = 2
    /\ RLt(self.final_lr, self.lr)
    /\ RLt(self.lr, self.base_lr)
    /\ self.lr # LinearValue(self.base_lr, 1, self.limit_step)

(***************************************************************************)
(* Properties of the constructor.                                          *)
(***************************************************************************)
\* C6: constructing an optimizer fails with the invalid-learning-rate error exactly when
\* lr <= 0 or lr > 1, whatever the loss and metric names are (the check comes before
\* their lookup), and a failed construction produces no optimizer object.
C6_InvalidLearningRate ==
    pc # "new" /\ pc # "fn_returned" =>
        /\ (raised = "ValueError") <=>
               (ctor_args.lr[1] <= 0 \/ ctor_args.lr[1] > ctor_args.lr[2])
        /\ raised \in {"ValueError", "KeyError"} => self = NoObject
        /\ self # NoObject =>
               /\ ctor_args.loss \in losses /\ ctor_args.metr \in metrics
               /\ self.base_lr = ctor_args.lr /\ self.loss = ctor_args.loss

\* C6 witness: an invalid lr together with an unknown loss name ends in the lr error
C6_Witness ==
    /\ raised = "ValueError"
    /\ ctor_args.loss \notin losses
    /\ ctor_args.lr = R(0)

(***************************************************************************)
(* Properties of the returned curves.                                      *)
(***************************************************************************)
\* the log entries of one data set
RECURSIVE LogOf(_, _)
LogOf(log, set) ==
    IF log = <<>> THEN <<>>
    ELSE IF Head(log).set = set THEN <<Head(log)>> \o LogOf(Tail(log), set)
    ELSE LogOf(Tail(log), set)

\* the loss (or metric) of every log entry, summed over the output units
RECURSIVE SumOverUnitsAndPatterns(_, _)
SumOverUnitsAndPatterns(log, what) ==
    IF log = <<>> THEN R(0)
    ELSE RAdd(IF what = "loss" THEN RSum(Head(log).loss)
              ELSE RSum([u \in Units |-> Head(log).metr[1]]),
              SumOverUnitsAndPatterns(Tail(log), what))

PerUnitPerPattern(log, what, n) ==
    RDiv(RDiv(SumOverUnitsAndPatterns(log, what), R(NumOut)), R(n))

C7_Inv ==
    /\ InRun =>
        /\ Len(tr_error_values) = epoch /\ Len(tr_metric_values) = epoch
        /\ Len(val_error_values) = epoch /\ Len(val_metric_values) = epoch
    /\ pc = "returned" => epoch = epochs
    /\ (pc \in {"epoch", "returned"} /\ epoch > 0) =>
        /\ Len(LogOf(epoch_log, "tr")) = Len(tr_x)
        /\ {LogOf(epoch_log, "tr")[i].pattern : i \in 1..Len(tr_x)} =
               {tr_x[i] : i \in 1..Len(tr_x)}
        /\ Len(LogOf(epoch_log, "val")) = Len(val_x)
        /\ {LogOf(epoch_log, "val")[i].pattern : i \in 1..Len(val_x)} =
               {val_x[i] : i \in 1..Len(val_x)}
        /\ tr_error_values[epoch] =
               PerUnitPerPattern(LogOf(epoch_log, "tr"), "loss", Len(tr_x))
        /\ tr_metric_values[epoch] =
               PerUnitPerPattern(LogOf(epoch_log, "tr"), "metr", Len(tr_x))
        /\ val_error_values[epoch] =
               PerUnitPerPattern(LogOf(epoch_log, "val"), "loss", Len(val_x))
        /\ val_metric_values[epoch] =
               PerUnitPerPattern(LogOf(epoch_log, "val"), "metr", Len(val_x))

C7_Step ==
    InRun =>
        /\ SubSeq(tr_error_values', 1, Len(tr_error_values)) = tr_error_values
        /\ SubSeq(tr_metric_values', 1, Len(tr_metric_values)) = tr_metric_values
        /\ SubSeq(val_error_values', 1, Len(val_error_values)) = val_error_values
        /\ SubSeq(val_metric_values', 1, Len(val_metric_values)) = val_metric_values

\* C7: optimize returns four curves with exactly one value per epoch, in epoch order; each
\* value is the loss (or metric) summed over the output units and over all patterns of
\* the training (resp. validation) set seen in that epoch, divided by the number of
\* output units and by the number of patterns of that set.
C7_EpochCurves == []C7_Inv /\ [][C7_Step]_vars

\* C7 witness: a returned run of two epochs over two patterns with different values
C7_Witness ==
    /\ pc = "returned"
    /\ epoch = 2
    /\ Len(tr_x) = 2
    /\ tr_error_values[1] # tr_error_values[2]
    /\ tr_metric_values[2] # R(0)
    /\ val_error_values[2] # R(0)

(***************************************************************************)
(* Properties of cross_valid and sets_from_folds.                          *)
(***************************************************************************)
\* the number of rows and of folds of the split in x_folds, y_folds
SplitN == IF cv_pc = "sff_returned" THEN sff_args.n ELSE cv_args.n

SplitK == IF cv_pc = "sff_returned" THEN sff_args.k_folds ELSE cv_args.k_folds

AllX == [i \in 1..SplitN |-> XRow(i)]

AllY == [i \in 1..SplitN |-> YRow(i)]

RECURSIVE Flatten(_)
Flatten(folds) == IF folds = <<>> THEN <<>> ELSE Head(folds) \o Flatten(Tail(folds))

\* contiguous folds in the original order, disjoint and covering all rows, with the
\* same boundaries for inputs and targets
C9_Partition ==
    /\ Len(x_folds) = SplitK /\ Len(y_folds) = SplitK
    /\ Flatten(x_folds) = AllX
    /\ Flatten(y_folds) = AllY
    /\ \A j \in 1..SplitK : Len(x_folds[j]) = Len(y_folds[j])

C8_FreshNetworkPerFold ==
    \A m \in 1..Len(fold_log) : fold_log[m].fits_before = 0

\* the rows of all that are not in the fold, in their original order
RowsOutside(all, fold) == SelectSeq(all, LAMBDA r : \A q \in 1..Len(fold) : fold[q] # r)

\* C10: for k >= 2 each fold index is the validation set of exactly one iteration, whose
\* training set is the concatenation, in fold order, of exactly the other k-1 folds:
\* training and validation rows are disjoint and together all N rows, and the training
\* inputs and targets come from the same folds in the same order; sets_from_folds builds
\* the same sets (as float32 arrays).
C10_TrainValSets ==
    /\ cv_pc \in {"cycle", "average", "returned"} =>
        /\ cv_pc \in {"average", "returned"} => Len(fold_log) = cv_args.k_folds
        /\ Len(fold_log) = cv_i
        /\ \A m \in 1..Len(fold_log) :
            /\ fold_log[m].i = m - 1
            /\ fold_log[m].valid_set = x_folds[m]
            /\ fold_log[m].valid_targets = y_folds[m]
            /\ fold_log[m].train_set = RowsOutside(AllX, x_folds[m])
            /\ fold_log[m].train_targets = RowsOutside(AllY, y_folds[m])
            /\ \A q \in 1..Len(fold_log[m].train_set) :
                   \E r \in 1..SplitN : /\ fold_log[m].train_set[q] = XRow(r)
                                        /\ fold_log[m].train_targets[q] = YRow(r)
    /\ (cv_pc = "sff_returned" /\ sff_args.k_folds >= 2) =>
        /\ sff_result.raised = "none"
        /\ sff_result.val_data = AsFloat32(x_folds[sff_args.val_fold_index + 1])
        /\ sff_result.val_targets = AsFloat32(y_folds[sff_args.val_fold_index + 1])
        /\ sff_result.tr_data =
               AsFloat32(RowsOutside(AllX, x_folds[sff_args.val_fold_index + 1]))
        /\ sff_result.tr_targets =
               AsFloat32(RowsOutside(AllY, y_folds[sff_args.val_fold_index + 1]))

\* C10 witness: the cycle over 3 folds is done and the middle fold was a validation set
C10_Witness ==
    /\ cv_pc = "average"
    /\ cv_args.k_folds = 3 /\ cv_args.n = 5
    /\ Len(fold_log) = 3
    /\ fold_log[2].valid_set = x_folds[2]
    /\ Len(fold_log[2].train_set) = 3

\* the values the folds' training runs reported for one curve at epoch index e
FoldValues(curve, e) ==
    [m \in 1..Len(fold_log) |->
        CASE curve = "tr_error_values" -> fold_log[m].fit.tr_err[e]
          [] curve = "tr_metric_values" -> fold_log[m].fit.tr_metric[e]
          [] curve = "val_error_values" -> fold_log[m].fit.val_err[e]
          [] curve = "val_metric_values" -> fold_log[m].fit.val_metric[e]]

ReturnedCurve(curve) ==
    CASE curve = "tr_error_values" -> cv_curves.tr_error_values
      [] curve = "tr_metric_values" -> cv_curves.tr_metric_values
      [] curve = "val_error_values" -> cv_curves.val_error_values
      [] curve = "val_metric_values" -> cv_curves.val_metric_values

CurveNames == {"tr_error_values", "tr_metric_values", "val_error_values", "val_metric_values"}

\* C11: cross_valid returns four curves of length epochs, and at every epoch index each
\* returned value is the sum of the k per-fold values at that index divided by k.
C11_AveragedCurves ==
    cv_pc = "returned" =>
        /\ Len(fold_log) = cv_args.k_folds
        /\ \A curve \in CurveNames :
            /\ Len(ReturnedCurve(curve)) = cv_args.epochs
            /\ \A e \in 1..cv_args.epochs :
                   ReturnedCurve(curve)[e] =
                       RDiv(RSum(FoldValues(curve, e)), R(cv_args.k_folds))

\* C11 witness: three folds over two epochs returned, the folds reporting different values
C11_Witness ==
    /\ cv_pc = "returned"
    /\ cv_args.k_folds = 3 /\ cv_args.epochs = 2
    /\ fold_log[1].fit # fold_log[2].fit
    /\ cv_curves.tr_error_values[2] # fold_log[1].fit.tr_err[2]

(***************************************************************************)
(* Properties of list_of_combos.                                           *)
(***************************************************************************)
CombosReturned == pc = "fn_returned" /\ fn_args.func = "list_of_combos"

\* C12: every configuration list_of_combos returns has len(units_per_layer) = len(acts).
C12_EqualLengths ==
    CombosReturned =>
        \A j \in 1..Len(fn_result.value) :
            Len(fn_result.value[j]["units_per_layer"]) = Len(fn_result.value[j]["acts"])

\* C12 witness: units_per_layer candidates of two lengths against one acts candidate,
\* and a configuration is returned
C12_Witness ==
    /\ CombosReturned
    /\ "units_per_layer" \in DOMAIN fn_args.param_dict
    /\ fn_args.param_dict["units_per_layer"] = << <<4>>, <<4, 1>> >>
    /\ fn_args.param_dict["acts"] = << <<"relu">> >>
    /\ Len(fn_result.value) >= 1

\* C13: every combination of the product with equal lengths (after the reconciliation of
\* the decay fields) appears in the returned list, the last of the enumeration and a
\* single valid combination included.
C13_AllValidCombos ==
    (CombosReturned /\ fn_result.raised = "none") =>
        \A i \in 1..Len(CombosOf(fn_args.param_dict)) :
            \E j \in 1..Len(fn_result.value) :
                fn_result.value[j] = CombosOf(fn_args.param_dict)[i]

\* the keys the reconciliation forces for a combination
ForcedKeys(c) ==
    IF c["lr_decay"] = Val("linear") THEN {"decay_rate", "decay_steps", "staircase"}
    ELSE IF c["lr_decay"] = Val("exponential") THEN {"limit_step"}
    ELSE {}

\* C14: in every returned configuration linear decay comes with decay_rate None,
\* decay_steps None and staircase False, exponential decay with limit_step None, and all
\* other fields are those of one combination of the Cartesian product.
C14_DecayFields ==
    CombosReturned =>
        \A j \in 1..Len(fn_result.value) :
            LET c == fn_result.value[j]
                product == Product(FillDefaults(fn_args.param_dict), 1)
            IN  /\ c["lr_decay"] = Val("linear") =>
                       /\ c["decay_rate"] = None
                       /\ c["decay_steps"] = None
                       /\ c["staircase"] = Val(FALSE)
                /\ c["lr_decay"] = Val("exponential") => c["limit_step"] = None
                /\ \E i \in 1..Len(product) :
                       \A k \in KeySet \ ForcedKeys(c) : c[k] = product[i][KeyIndex(k)]

\* C14 witness: a linear configuration whose candidates had a decay_rate and staircase
\* True, and an exponential one whose candidates had a limit_step, are returned
C14_Witness ==
    /\ CombosReturned
    /\ DOMAIN fn_args.param_dict = {"units_per_layer", "acts", "lr_decay", "decay_rate",
                                    "limit_step", "staircase", "lr"}
    /\ fn_args.param_dict["decay_rate"] = <<Val(9)>>
    /\ fn_args.param_dict["staircase"] = <<Val(FALSE), Val(TRUE)>>
    /\ fn_args.param_dict["limit_step"] = <<Val(100), Val(200)>>
    /\ \E j \in 1..Len(fn_result.value) : fn_result.value[j]["lr_decay"] = Val("linear")
    /\ \E j \in 1..Len(fn_result.value) : fn_result.value[j]["lr_decay"] = Val("exponential")

(***************************************************************************)
(* Properties of get_best_models.                                          *)
(***************************************************************************)
\* result a is ranked before result b: better metric, then lower metric std, lower
\* loss, lower loss std, all rounded
RankedBefore(dataset, a, b) ==
    LET am == Round3(a[3])
        bm == Round3(b[3])
        key(r) == <<Round3(r[4]), Round3(r[1]), Round3(r[2])>>
    IN  \/ IF dataset = "cup" THEN am < bm ELSE am > bm
        \/ /\ am = bm
           /\ \/ key(a)[1] < key(b)[1]
              \/ key(a)[1] = key(b)[1] /\ key(a)[2] < key(b)[2]
              \/ key(a)[1] = key(b)[1] /\ key(a)[2] = key(b)[2] /\ key(a)[3] < key(b)[3]

\* C15: the first model get_best_models selects is the lexicographic best of all
\* results: best metric, then lowest metric std, lowest loss, lowest loss std.
C15_FirstIsBest ==
    (pc = "fn_returned" /\ fn_args.func = "get_best_models" /\ Len(fn_result.params) >= 1) =>
        LET first == fn_result.params[1]
            results == fn_args.results
        IN  /\ results[first] # None
            /\ \A j \in 1..Len(results) :
                   results[j] # None => ~RankedBefore(fn_args.dataset, results[j], results[first])

(***************************************************************************)
(* Properties of randomize_params.                                         *)
(***************************************************************************)
\* the keys the claim calls categorical or fixed
CategoricalKeys == {"acts", "init_type", "units_per_layer", "loss", "metr", "lr_decay",
                    "reg_type", "decay_rate", "staircase", "limits", "epochs"}

\* the key is a perturbed numeric one for this base configuration
Perturbed(k, v, lr_decay) ==
    \/ k = "batch_size" /\ v # Full
    \/ k \in {"lr", "lambd", "momentum"}
    \/ k = "limit_step" /\ v # None /\ lr_decay = Val("linear")
    \/ k = "decay_steps" /\ v # None /\ lr_decay = Val("exponential")

\* C16: randomize_params(base_params, fb_dim, n) returns one candidate, the base value,
\* for every categorical or fixed key, and n candidates of which the first is the base
\* value for every perturbed numeric key.
C16_CandidateCounts ==
    rp_pc = "returned" =>
        /\ DOMAIN rand_params = {rp_args.base_params[q][1] : q \in 1..Len(rp_args.base_params)}
        /\ \A q \in 1..Len(rp_args.base_params) :
            LET k == rp_args.base_params[q][1]
                v == rp_args.base_params[q][2]
            IN  /\ k \in CategoricalKeys => rand_params[k] = <<v>>
                /\ Perturbed(k, v, BaseValue(rp_args.base_params, "lr_decay")) =>
                       /\ Len(rand_params[k]) = rp_args.n_config + 1
                       /\ rand_params[k][1] = v

\* C16 witness: n = 3, a momentum with three candidates next to the fixed epochs
C16_Witness ==
    /\ rp_pc = "returned"
    /\ rp_args.n_config = 2
    /\ DOMAIN rand_params = {"lr_decay", "momentum", "epochs"}
    /\ Len(rand_params["momentum"]) = 3
    /\ rand_params["momentum"][2] # rand_params["momentum"][1]
    /\ rand_params["epochs"] = <<100>>

\* C17: for an integer base batch size v every additional batch-size candidate lies in
\* [max(v-15, 1), min(v+15, fb_dim)] and any two candidates differ by at least 5.
C17_BatchSizeCandidates ==
    ("batch_size" \in DOMAIN rand_params /\ rand_params["batch_size"][1] # Full) =>
        LET cands == rand_params["batch_size"]
            v == cands[1]
        IN  /\ \A p \in 2..Len(cands) :
                   /\ cands[p] >= Max(v - 15, 1)
                   /\ cands[p] <= Min(v + 15, rp_args.fb_dim)
            /\ \A p, q \in 1..Len(cands) : p # q => Abs(cands[p] - cands[q]) >= 5

\* C17 witness: three batch sizes returned, the last accepted after a resampling
C17_Witness ==
    /\ rp_pc = "returned"
    /\ "batch_size" \in DOMAIN rand_params
    /\ Len(rand_params["batch_size"]) = 3
    /\ rp_draws = 2

\* C18: for a base momentum in [0, 1] every momentum candidate lies in [0, 1], accepted
\* on the first draw or after resampling.
C18_MomentumRange ==
    "momentum" \in DOMAIN rand_params =>
        \A p \in 1..Len(rand_params["momentum"]) :
            rand_params["momentum"][p] >= 0 /\ rand_params["momentum"][p] <= 10000

(***************************************************************************)
(* Properties of the registry functions.                                   *)
(***************************************************************************)
\* C19: calling the forward or the derivative of a registered activation on an array
\* leaves the contents of that array unchanged.
C19_ActivationsPure ==
    (pc = "fn_returned" /\ fn_args.func \in ActNames) => fn_x = fn_args.x

\* C20: the squared loss is element-wise 0.5 * (target - predicted)^2 and its derivative
\* element-wise predicted - target: a loss element is >= 0, and it is 0 exactly when the
\* derivative element is 0, that is when predicted equals target.
C20_SquaredLoss ==
    (pc = "fn_returned" /\ fn_args.func = "squared") =>
        /\ Len(fn_result.func) = Len(fn_args.predicted)
        /\ Len(fn_result.deriv) = Len(fn_args.predicted)
        /\ \A i \in 1..Len(fn_args.predicted) :
            LET p == fn_args.predicted[i]
                t == fn_args.target[i]
                loss == fn_result.func[i]
                deriv == fn_result.deriv[i]
            IN  /\ RAdd(deriv, t) = p
                /\ RMul(R(2), loss) = RMul(RSub(t, p), RSub(t, p))
                /\ RLe(R(0), loss)
                /\ (loss = R(0)) <=> (deriv = R(0))
                /\ (deriv = R(0)) <=> (p = t)

\* C20 witness: the vectors of the unit test, predicted [1,0,0,1] and target [1,1,0,0]
C20_Witness ==
    /\ pc = "fn_returned" /\ fn_args.func = "squared"
    /\ fn_args.predicted = <<R(1), R(0), R(0), R(1)>>
    /\ fn_args.target = <<R(1), R(1), R(0), R(0)>>
    /\ fn_result.func = <<R(0), Rat(1, 2), R(0), Rat(1, 2)>>
    /\ fn_result.deriv = <<R(0), R(-1), R(0), R(1)>>

(***************************************************************************)
(* Properties of the batch loop.                                           *)
(***************************************************************************)
\* the training patterns forwarded so far in this epoch, in order
TrainedPatterns ==
    [i \in 1..Len(LogOf(epoch_log, "tr")) |-> LogOf(epoch_log, "tr")[i].pattern]

C22_Step ==
    InRun =>
        /\ (\/ weights' # weights \/ biases' # biases \/ momentum_net' # momentum_net
            \/ batch_index' > batch_index) =>
               /\ IsWeightsUpdate
               /\ Len(pattern_grads) = Len(train_batch)
               /\ pos = Len(train_batch) + 1
        /\ IsWeightsUpdate => batch_index' = batch_index + 1

C22_Inv ==
    /\ pc \in {"validation", "epoch_end"} =>
           /\ batch_index * batch_size >= Len(tr_x)
           /\ (batch_index - 1) * batch_size < Len(tr_x)
           /\ TrainedPatterns = tr_x
    /\ pc \in {"pattern", "decay", "update"} =>
           /\ batch_index * batch_size < Len(tr_x)
           /\ Len(train_batch) >= 1
           /\ TrainedPatterns = SubSeq(tr_x, 1, batch_index * batch_size + pos - 1)

\* C22: during optimize the weights, the biases and the momentum buffer change only in
\* the update step at the end of a batch, after all its patterns were forwarded and
\* backpropagated, once per batch and ceil(N / batch_size) times per epoch; never between
\* the patterns of a batch or during validation; every training pattern is in exactly one
\* batch per epoch.
C22_UpdateOncePerBatch == []C22_Inv /\ [][C22_Step]_vars

\* C22 witness: three patterns in batches of two, both updates done, validation running
C22_Witness ==
    /\ pc = "validation"
    /\ Len(tr_x) = 3 /\ batch_size = 2
    /\ batch_index = 2
    /\ weights # InitWeights

(***************************************************************************)
(* Properties of get_best_models with n_models > 1.                        *)
(***************************************************************************)
\* the positions of the results that are not None
NonNull(results) == {j \in 1..Len(results) : results[j] # None}

\* C24: get_best_models with n_models = m, m at most the number of non-null results,
\* returns m different trials in ranking order: the i-th parameter set returned is that
\* of a trial with a non-null result that no trial not yet returned is ranked before.
C24_RankingOrder ==
    (/\ pc = "fn_returned" /\ fn_args.func = "get_best_models"
     /\ fn_args.n_models <= Cardinality(NonNull(fn_args.results))) =>
        /\ fn_result.raised = "none"
        /\ Len(fn_result.params) = fn_args.n_models
        /\ \A i \in 1..Len(fn_result.params) :
            /\ fn_result.params[i] \in NonNull(fn_args.results)
            /\ \A h \in 1..(i - 1) : fn_result.params[h] # fn_result.params[i]
            /\ \A j \in NonNull(fn_args.results) \ {fn_result.params[h] : h \in 1..(i - 1)} :
                   ~RankedBefore(fn_args.dataset, fn_args.results[j],
                                 fn_args.results[fn_result.params[i]])

\* C26: the list list_of_combos returns contains no two equal configurations, those that
\* became equal through the reconciliation of the decay fields included.
C26_NoDuplicates ==
    CombosReturned =>
        \A i, j \in 1..Len(fn_result.value) : i # j => fn_result.value[i] # fn_result.value[j]

\* C27: every learning-rate candidate randomize_params generates from a base lr in (0, 1]
\* lies in (0, 1] (10000 is 1.0), so the optimizer's constructor accepts it.
C27_LrCandidatesValid ==
    (/\ "lr" \in DOMAIN rand_params
     /\ rand_params["lr"][1] > 0 /\ rand_params["lr"][1] <= 10000) =>
        \A p \in 1..Len(rand_params["lr"]) :
            rand_params["lr"][p] > 0 /\ rand_params["lr"][p] <= 10000

\* C25: randomize_params terminates: every resampling loop eventually accepts a value,
\* also when the batch-size range holds fewer than n_config values pairwise 5 apart.
C25_Terminates == <>(rp_pc \in {"returned", "raised"})

\* the lr a newly constructed optimizer holds after the decay of step s
RECURSIVE FreshLr(_)
FreshLr(s) ==
    IF s = 0 THEN self.base_lr
    ELSE linear_lr_decay(FreshLr(s - 1), self.base_lr, self.final_lr, s, self.limit_step)

\* C23: every optimize call starts with a zero momentum buffer, step 0 and lr = base_lr,
\* and the lr used at the batch with step s is the one a first call uses at step s.
C23_SameStartState ==
    /\ (pc = "epoch" /\ epoch = 0 /\ calls >= 1) =>
           /\ momentum_net = get_empty_struct
           /\ step = 0
           /\ self.lr = self.base_lr
    /\ (pc = "update" /\ self.lr_decay = "linear") => self.lr = FreshLr(step)

\* the weights a fit call ends with when it runs alone: the forward pass, the backward
\* pass, the decay and the update of each pattern in turn
RECURSIVE SoloWeights(_, _, _, _, _, _)
SoloWeights(w, lr, mom, s, indexes, p) ==
    IF p > EnsTrain THEN w
    ELSE LET inp == EnsPattern(indexes[p])
             out == RMul(w, R(inp))
             grad == RMul(RSub(R(EnsTarget(indexes[p])), out), R(inp))
             base_lr == lr[2]
             new_lr == linear_lr_decay(lr[1], base_lr, RDiv(base_lr, R(100)), s + 1, EnsTrain)
             new_mom == RAdd(RMul(mom, Rat(1, 2)), RMul(new_lr, grad))
         IN  SoloWeights(RAdd(w, new_mom), <<new_lr, base_lr>>, new_mom, s + 1,
                         indexes, p + 1)

====
